---- MODULE Spec2Model ----
(***************************************************************************)
(* Verification model of the RCA tool's core:                              *)
(*   - UnifiedLLMClient (src/src/core/llm/client.py): provider registry,   *)
(*     attempt order and the sequential fallback loop;                     *)
(*   - ResponseParser (src/src/core/analysis/parsers.py): JSON extraction, *)
(*     per-dialect section extraction and the merge into one record.       *)
(*                                                                         *)
(* Text is modelled as a sequence of tokens.  A token is one punctuation   *)
(* character, one whitespace character, one digit, one whole word or one   *)
(* whole JSON string literal; Len(token) is the number of characters it    *)
(* stands for.  Regular expressions are translated token by token.         *)
(***************************************************************************)
EXTENDS Integers, Sequences, FiniteSets, TLC

VARIABLES
    config,             \* UnifiedLLMClient.config (the keys the client reads)
    providers,          \* UnifiedLLMClient.providers: names in insertion order
    pc,                 \* position of the generate_analysis coroutine
    preferred_provider, \* argument of the running generate_analysis call
    provider_order,     \* local provider_order of generate_analysis
    idx,                \* position of the for loop in provider_order
    last_error,         \* local last_error of generate_analysis
    response,           \* value returned by generate_analysis
    error_msg,          \* message of the exception raised by generate_analysis
    attempts,           \* provider calls made by the running call, with outcome
    response_text,      \* parse_llm_response: the completion to parse
    analysis_type,      \* parse_llm_response: the analysis type
    parsed,             \* parse_llm_response: what the call produced
    json_in,            \* _extract_json: prose before, object text, prose after
    json_out,           \* _extract_json: results for the wrapped and the bare object
    table_in,           \* _clean_markdown_table: the lines of table_text
    table_out,          \* _clean_markdown_table: what the call returned
    mcp_client,         \* RCAEngine.mcp_client is set (not None)
    eng_pc,             \* position of the RCAEngine.generate_analysis coroutine
    eng_args,           \* its arguments: files, urls, jira_tickets, analysis_type
    pending,            \* sources the three loops of _collect_source_data still read
    read_log,           \* the mcp_client reads made by the call, with outcome
    data_parts,         \* local data_parts of _collect_source_data
    source_data,        \* what _collect_source_data returned
    parsed_analysis,    \* what parse_llm_response produced for the call
    eng_result,         \* the result dict returned by generate_analysis
    eng_error,          \* message of the exception generate_analysis raised
    written,            \* files the call wrote into output_dir
    ui_sources,         \* RCAApp.uploaded_files, urls and jira_tickets
    selected_prompt,    \* RCAApp.selected_prompt (the dropdown value)
    analysis_result,    \* RCAApp.analysis_result
    analysis_status,    \* RCAApp.analysis_status
    analysis_error,     \* RCAApp.analysis_error
    current_step,       \* RCAApp.current_step
    ui_pc,              \* position of the _generate_analysis_async task
    status_timer,       \* RCAApp.status_timer is active
    task_result,        \* local result of _generate_analysis_async
    san_in,             \* _sanitize_filename: the filename, as characters
    san_out,            \* _sanitize_filename: what the call returned
    upload_dir,         \* FileHandler.upload_dir: file name -> content
    uploads,            \* the save_uploaded_file calls made, with outcome
    fb_in,              \* create_fallback_analysis: response_text, as characters
    fb_out,             \* create_fallback_analysis: what the call returned
    running_tasks,      \* number of _generate_analysis_async tasks in flight
    timer_count,        \* number of status timers start_analysis has created
    active_timers,      \* the status timers that are not cancelled
    status_timer_id,    \* the timer RCAApp.status_timer refers to, 0 for None
    jira_fetch,         \* RCAApp._jira_fetch_status, _jira_main_ticket and
                        \* _jira_linked_issues
    fetch_tasks,        \* _fetch_linked_issues_background tasks in flight
    jira_check_timer,   \* RCAApp._jira_check_timer and the unreferenced timers
    dialogs             \* the linked-issues dialogs that are open

llmVars == <<config, providers, pc, preferred_provider, provider_order, idx,
             last_error, response, error_msg, attempts>>

parserVars == <<response_text, analysis_type, parsed>>

jsonVars == <<json_in, json_out>>

tableVars == <<table_in, table_out>>

engineVars == <<mcp_client, eng_pc, eng_args, pending, read_log, data_parts,
                source_data, parsed_analysis, eng_result, eng_error, written>>

uiVars == <<ui_sources, selected_prompt, analysis_result, analysis_status,
            analysis_error, current_step, ui_pc, status_timer, task_result>>

sanitizeVars == <<san_in, san_out>>

fileVars == <<upload_dir, uploads>>

\* The variables of FileHandler and of the further parts of RCAApp.
fallbackVars == <<fb_in, fb_out>>

timerVars == <<running_tasks, timer_count, active_timers, status_timer_id>>

jiraVars == <<jira_fetch, fetch_tasks, jira_check_timer, dialogs>>

appVars == <<sanitizeVars, fileVars, fallbackVars, timerVars, jiraVars>>

vars == <<llmVars, parserVars, jsonVars, tableVars, engineVars, uiVars,
          appVars>>

-----------------------------------------------------------------------------
(* Generic helpers on sequences                                            *)

SeqToSet(s) == {s[k] : k \in 1..Len(s)}

Contains(s, x) == \E k \in 1..Len(s) : s[k] = x

\* [p for p in s if p != x]
Without(s, x) == SelectSeq(s, LAMBDA p : p # x)

IsPrefixOf(s, t) == Len(s) <= Len(t) /\ SubSeq(t, 1, Len(s)) = s

-----------------------------------------------------------------------------
(* UnifiedLLMClient                                                        *)

None == "None"

\* The four provider names, in the order _setup_providers registers them.
ProviderNames == <<"openai", "anthropic", "openrouter", "llmproxy">>

\* Values of preferred_provider / config['default_llm'] that are tried:
\* absent (None), the empty string, each provider name, an unknown name.
NameChoices == SeqToSet(ProviderNames) \cup {None, "", "bogus"}

\* Python truthiness of an optional string.
Truthy(s) == s # None /\ s # ""

\* Error texts a failing provider call may carry.
ErrorTexts == {"timeout", "quota"}

\* Texts a provider call may return (message.content may be empty or None).
ResponseTexts == {"analysis text", "", None}

Configs ==
    [openai_api_key : BOOLEAN, anthropic_api_key : BOOLEAN,
     openrouter_api_key : BOOLEAN, llmproxy_api_key : BOOLEAN,
     llmproxy_base_url : BOOLEAN, default_llm : NameChoices]

\* _setup_providers: one dict entry per configured provider, inserted in
\* the fixed order openai, anthropic, openrouter, llmproxy.
SetupProviders(cfg) ==
    (IF cfg.openai_api_key THEN <<"openai">> ELSE <<>>)
    \o (IF cfg.anthropic_api_key THEN <<"anthropic">> ELSE <<>>)
    \o (IF cfg.openrouter_api_key THEN <<"openrouter">> ELSE <<>>)
    \o (IF cfg.llmproxy_api_key /\ cfg.llmproxy_base_url
        THEN <<"llmproxy">> ELSE <<>>)

\* Mutant: the remainder is not filtered, so the head is listed twice.
GetProviderOrderNoFilter(provs, cfg, preferred) ==
    IF provs = <<>> THEN <<>>
    ELSE IF Truthy(preferred) /\ Contains(provs, preferred)
         THEN <<preferred>> \o provs
    ELSE IF Truthy(cfg.default_llm) /\ Contains(provs, cfg.default_llm)
         THEN <<cfg.default_llm>> \o provs
    ELSE provs

\* Mutant: the config default takes precedence over the preferred provider.
GetProviderOrderDefaultFirst(provs, cfg, preferred) ==
    IF provs = <<>> THEN <<>>
    ELSE IF Truthy(cfg.default_llm) /\ Contains(provs, cfg.default_llm)
         THEN <<cfg.default_llm>> \o Without(provs, cfg.default_llm)
    ELSE IF Truthy(preferred) /\ Contains(provs, preferred)
         THEN <<preferred>> \o Without(provs, preferred)
    ELSE provs

\* _get_provider_order
GetProviderOrder(provs, cfg, preferred) ==
    IF provs = <<>> THEN <<>>
    ELSE IF Truthy(preferred) /\ Contains(provs, preferred)
         THEN <<preferred>> \o Without(provs, preferred)
    ELSE IF Truthy(cfg.default_llm) /\ Contains(provs, cfg.default_llm)
         THEN <<cfg.default_llm>> \o Without(provs, cfg.default_llm)
    ELSE provs

\* The for loop's next stop at or after position k: names that are not keys
\* of self.providers are passed over without a call (no await in between).
RECURSIVE NextRegistered(_, _, _)
NextRegistered(provs, order, k) ==
    IF k > Len(order) \/ Contains(provs, order[k]) THEN k
    ELSE NextRegistered(provs, order, k + 1)

\* The state after UnifiedLLMClient.__init__, for any configuration.
InitLLM ==
    /\ config \in Configs
    /\ providers = SetupProviders(config)
    /\ pc = "idle"
    /\ preferred_provider = None
    /\ provider_order = <<>>
    /\ idx = 1
    /\ last_error = None
    /\ response = None
    /\ error_msg = <<>>
    /\ attempts = <<>>

\* generate_analysis up to the first provider call: the order is computed
\* and last_error is reset.
GenerateAnalysis(preferred) ==
    /\ pc = "idle"
    /\ preferred_provider' = preferred
    /\ provider_order' = GetProviderOrder(providers, config, preferred)
    /\ idx' = NextRegistered(providers,
                 GetProviderOrder(providers, config, preferred), 1)
    /\ last_error' = None
    /\ response' = None
    /\ error_msg' = <<>>
    /\ attempts' = <<>>
    /\ pc' = "loop"
    /\ UNCHANGED <<config, providers>>
    /\ UNCHANGED <<parserVars, jsonVars>>

\* Mutant: a successful call is recorded but the loop goes on.
ProviderSucceedsContinue(text) ==
    /\ pc = "loop"
    /\ idx <= Len(provider_order)
    /\ attempts' = Append(attempts,
                     [provider |-> provider_order[idx], outcome |-> "ok",
                      text |-> text])
    /\ response' = text
    /\ idx' = NextRegistered(providers, provider_order, idx + 1)
    /\ UNCHANGED <<config, providers, pc, preferred_provider, provider_order,
                   last_error, error_msg>>
    /\ UNCHANGED <<parserVars, jsonVars>>

\* Loop body, try branch: the awaited generate_completion returns text and
\* generate_analysis returns it at once.
ProviderSucceeds(text) ==
    /\ pc = "loop"
    /\ idx <= Len(provider_order)
    /\ attempts' = Append(attempts,
                     [provider |-> provider_order[idx], outcome |-> "ok",
                      text |-> text])
    /\ response' = text
    /\ pc' = "returned"
    /\ UNCHANGED <<config, providers, preferred_provider, provider_order, idx,
                   last_error, error_msg>>
    /\ UNCHANGED <<parserVars, jsonVars>>

\* Mutant: a failed provider is moved to the end of the registry.
ProviderFailsDemote(err) ==
    /\ pc = "loop"
    /\ idx <= Len(provider_order)
    /\ attempts' = Append(attempts,
                     [provider |-> provider_order[idx], outcome |-> "failed",
                      text |-> err])
    /\ last_error' = err
    /\ idx' = NextRegistered(providers, provider_order, idx + 1)
    /\ providers' = Append(Without(providers, provider_order[idx]),
                           provider_order[idx])
    /\ UNCHANGED <<config, pc, preferred_provider, provider_order,
                   response, error_msg>>
    /\ UNCHANGED <<parserVars, jsonVars>>

\* Mutant: only the first error is remembered.
ProviderFailsKeepFirst(err) ==
    /\ pc = "loop"
    /\ idx <= Len(provider_order)
    /\ attempts' = Append(attempts,
                     [provider |-> provider_order[idx], outcome |-> "failed",
                      text |-> err])
    /\ last_error' = IF last_error = None THEN err ELSE last_error
    /\ idx' = NextRegistered(providers, provider_order, idx + 1)
    /\ UNCHANGED <<config, providers, pc, preferred_provider, provider_order,
                   response, error_msg>>
    /\ UNCHANGED <<parserVars, jsonVars>>

\* Loop body, except branch: the awaited generate_completion raises; the
\* error is remembered and the loop continues with the next name.
ProviderFails(err) ==
    /\ pc = "loop"
    /\ idx <= Len(provider_order)
    /\ attempts' = Append(attempts,
                     [provider |-> provider_order[idx], outcome |-> "failed",
                      text |-> err])
    /\ last_error' = err
    /\ idx' = NextRegistered(providers, provider_order, idx + 1)
    /\ UNCHANGED <<config, providers, pc, preferred_provider, provider_order,
                   response, error_msg>>
    /\ UNCHANGED <<parserVars, jsonVars>>

\* Loop body, the awaited generate_completion never completes: the await of
\* line 212 has no timeout around it, so the coroutine stays suspended.
ProviderNeverResponds ==
    /\ pc = "loop"
    /\ idx <= Len(provider_order)
    /\ attempts' = Append(attempts,
                     [provider |-> provider_order[idx], outcome |-> "pending",
                      text |-> None])
    /\ pc' = "awaiting"
    /\ UNCHANGED <<config, providers, preferred_provider, provider_order, idx,
                   last_error, response, error_msg>>
    /\ UNCHANGED <<parserVars, jsonVars>>

\* After the loop: f"All LLM providers failed. Last error: {last_error}".
AllProvidersFailed ==
    /\ pc = "loop"
    /\ idx > Len(provider_order)
    /\ error_msg' = <<"All LLM providers failed. Last error: ", last_error>>
    /\ pc' = "raised"
    /\ UNCHANGED <<config, providers, preferred_provider, provider_order, idx,
                   last_error, response, attempts>>
    /\ UNCHANGED <<parserVars, jsonVars>>

\* The caller has the result or the exception; the client is idle again.
\* The locals of the finished call are kept until the next call resets them.
CallCompleted ==
    /\ pc \in {"returned", "raised"}
    /\ pc' = "idle"
    /\ UNCHANGED <<config, providers, preferred_provider, provider_order, idx,
                   last_error, response, error_msg, attempts>>
    /\ UNCHANGED <<parserVars, jsonVars>>

NextLLM ==
    /\ \/ \E preferred \in NameChoices : GenerateAnalysis(preferred)
       \/ \E text \in ResponseTexts : ProviderSucceeds(text)
       \/ \E err \in ErrorTexts : ProviderFails(err)
       \/ ProviderNeverResponds
       \/ AllProvidersFailed
       \/ CallCompleted
    /\ UNCHANGED <<tableVars, engineVars, uiVars, appVars>>


-----------------------------------------------------------------------------
(* Text as token sequences                                                 *)

WS == {" ", "\n"}

IsWs(tok) == tok \in WS

Digits == {"0", "1", "2", "3", "4", "5", "6", "7", "8", "9"}

\* JSON string literals of the alphabet (one token each, quotes included)
\* and the Python str each one decodes to.
StringLits ==
    {"\"executive_summary\"", "\"ok\"", "\"raw_response\"", "\"x\"",
     "\"recommendations\"", "\"from json\"", "\"sources_used\""}

StrContent(lit) ==
    CASE lit = "\"executive_summary\"" -> "executive_summary"
      [] lit = "\"ok\"" -> "ok"
      [] lit = "\"raw_response\"" -> "raw_response"
      [] lit = "\"x\"" -> "x"
      [] lit = "\"recommendations\"" -> "recommendations"
      [] lit = "\"from json\"" -> "from json"
      [] lit = "\"sources_used\"" -> "sources_used"

\* The characters of a decoded str of length two (the only length for
\* which dict.update needs them).
StrChars(lit) ==
    CASE lit = "\"ok\"" -> <<"o", "k">>
      [] OTHER -> <<>>

\* First position at or after i that holds no whitespace (Len + 1 if none).
RECURSIVE SkipWs(_, _)
SkipWs(t, i) ==
    IF i <= Len(t) /\ IsWs(t[i]) THEN SkipWs(t, i + 1) ELSE i

\* str.strip()
RECURSIVE StripLeft(_)
StripLeft(t) ==
    IF t # <<>> /\ IsWs(Head(t)) THEN StripLeft(Tail(t)) ELSE t

RECURSIVE StripRight(_)
StripRight(t) ==
    IF t # <<>> /\ IsWs(t[Len(t)])
    THEN StripRight(SubSeq(t, 1, Len(t) - 1)) ELSE t

Strip(t) == StripRight(StripLeft(t))

\* len() of the str a token sequence stands for.
RECURSIVE CharLen(_)
CharLen(t) == IF t = <<>> THEN 0 ELSE Len(Head(t)) + CharLen(Tail(t))

\* The str a token sequence stands for.
RECURSIVE Join(_)
Join(t) == IF t = <<>> THEN "" ELSE Head(t) \o Join(Tail(t))

TokAt(t, i) == IF i >= 1 /\ i <= Len(t) THEN t[i] ELSE "<eof>"

NoWs(t) == SelectSeq(t, LAMBDA tok : ~IsWs(tok))

-----------------------------------------------------------------------------
(* json.loads on token sequences                                           *)

\* A decoded value: its Python type, its content v (the decoded characters
\* of a str, the source tokens of anything else), its truth value, the
\* number n of items iterating it yields (-1: not iterable), those items
\* when there are exactly two (pair), and for a dict its key/value map.
JVal(type, v, truthy, n, pair, map) ==
    [type |-> type, v |-> v, truthy |-> truthy, n |-> n, pair |-> pair,
     map |-> map]

EmptyMap == [k \in {} |-> <<>>]

\* What a value looks like as a member of the result record.
Field(val) == [type |-> val.type, v |-> val.v]

StrField(t) == [type |-> "str", v |-> t]

JFail == [ok |-> FALSE, end |-> 0, val |-> JVal("", <<>>, FALSE, -1, <<>>, EmptyMap)]

JOk(end, val) == [ok |-> TRUE, end |-> end, val |-> val]

\* End of the digit run starting at i.
RECURSIVE DigitRunEnd(_, _)
DigitRunEnd(t, i) ==
    IF TokAt(t, i) \in Digits THEN DigitRunEnd(t, i + 1) ELSE i

AllZero(t) == \A k \in 1..Len(t) : t[k] \in {"0", "-", "."}

\* NUMBER_RE of the json scanner: -?(0|[1-9]\d*)(\.\d+)? (the alphabet has
\* no exponent letters).
JNumber(t, i) ==
    LET s == IF TokAt(t, i) = "-" THEN i + 1 ELSE i
        intEnd == IF TokAt(t, s) = "0" THEN s + 1 ELSE DigitRunEnd(t, s)
        fracEnd == IF TokAt(t, intEnd) = "." /\ TokAt(t, intEnd + 1) \in Digits
                   THEN DigitRunEnd(t, intEnd + 1) ELSE intEnd
        src == SubSeq(t, i, fracEnd - 1)
    IN  IF intEnd = s THEN JFail
        ELSE JOk(fracEnd,
                 JVal(IF fracEnd > intEnd THEN "float" ELSE "int",
                      src, ~AllZero(src), -1, <<>>, EmptyMap))

Hashable(val) == val.type \in {"str", "int", "float", "bool", "NoneType"}

\* The dict key a hashable value makes (True == 1 and False == 0 in Python).
KeyOf(val) ==
    CASE val.type = "str" -> Join(val.v)
      [] val.type = "bool" -> IF val.v = <<"true">> THEN "int:1" ELSE "int:0"
      [] OTHER -> val.type \o ":" \o Join(val.v)

StrItem(c) == JVal("str", <<c>>, TRUE, 1, <<>>, EmptyMap)

JString(t, i) ==
    LET lit == t[i]
        n == Len(lit) - 2
    IN  JOk(i + 1,
            JVal("str", <<StrContent(lit)>>, n > 0, n,
                 IF n = 2 THEN <<StrItem(StrChars(lit)[1]),
                                 StrItem(StrChars(lit)[2])>>
                 ELSE <<>>,
                 EmptyMap))

RECURSIVE JValue(_, _), JMembers(_, _, _, _, _), JElements(_, _, _, _)

\* JSONObject after the opening brace at start: pairs until the closing
\* brace; a repeated key keeps its first position and takes the last value.
JMembers(t, start, j, keys, map) ==
    IF TokAt(t, j) \notin StringLits THEN JFail
    ELSE LET key == StrContent(t[j])
             c == SkipWs(t, j + 1)
         IN  IF TokAt(t, c) # ":" THEN JFail
             ELSE LET r == JValue(t, SkipWs(t, c + 1))
                  IN  IF ~r.ok THEN JFail
                      ELSE LET m == SkipWs(t, r.end)
                               keys2 == IF Contains(keys, key) THEN keys
                                        ELSE Append(keys, key)
                               map2 == [k \in DOMAIN map \cup {key} |->
                                          IF k = key THEN Field(r.val)
                                          ELSE map[k]]
                           IN  IF TokAt(t, m) = ","
                               THEN JMembers(t, start, SkipWs(t, m + 1),
                                             keys2, map2)
                               ELSE IF TokAt(t, m) = "}"
                               THEN JOk(m + 1,
                                        JVal("dict", NoWs(SubSeq(t, start, m)),
                                             TRUE, Len(keys2),
                                             IF Len(keys2) = 2
                                             THEN <<StrItem(keys2[1]),
                                                    StrItem(keys2[2])>>
                                             ELSE <<>>,
                                             map2))
                               ELSE JFail

\* JSONArray after the opening bracket at start.
JElements(t, start, j, elems) ==
    LET r == JValue(t, j)
    IN  IF ~r.ok THEN JFail
        ELSE LET m == SkipWs(t, r.end)
                 elems2 == Append(elems, r.val)
             IN  IF TokAt(t, m) = ","
                 THEN JElements(t, start, SkipWs(t, m + 1), elems2)
                 ELSE IF TokAt(t, m) = "]"
                 THEN JOk(m + 1,
                          JVal("list", NoWs(SubSeq(t, start, m)), TRUE,
                               Len(elems2),
                               IF Len(elems2) = 2 THEN elems2 ELSE <<>>,
                               [k \in {"elems"} |-> elems2]))
                 ELSE JFail

\* scan_once: the value starting at position i.
JValue(t, i) ==
    LET tok == TokAt(t, i)
    IN  CASE tok \in StringLits -> JString(t, i)
          [] tok = "{" ->
               LET j == SkipWs(t, i + 1)
               IN  IF TokAt(t, j) = "}"
                   THEN JOk(j + 1, JVal("dict", <<"{", "}">>, FALSE, 0, <<>>,
                                        EmptyMap))
                   ELSE JMembers(t, i, j, <<>>, EmptyMap)
          [] tok = "[" ->
               LET j == SkipWs(t, i + 1)
               IN  IF TokAt(t, j) = "]"
                   THEN JOk(j + 1, JVal("list", <<"[", "]">>, FALSE, 0, <<>>,
                                        [k \in {"elems"} |-> <<>>]))
                   ELSE JElements(t, i, j, <<>>)
          [] tok = "null" ->
               JOk(i + 1, JVal("NoneType", <<tok>>, FALSE, -1, <<>>, EmptyMap))
          [] tok = "true" ->
               JOk(i + 1, JVal("bool", <<tok>>, TRUE, -1, <<>>, EmptyMap))
          [] tok = "false" ->
               JOk(i + 1, JVal("bool", <<tok>>, FALSE, -1, <<>>, EmptyMap))
          [] tok = "-" \/ tok \in Digits -> JNumber(t, i)
          [] OTHER -> JFail

\* json.loads: whitespace, one value, whitespace, end of text; anything
\* else is a JSONDecodeError (ok = FALSE).
WholeText(t, r) ==
    IF r.ok /\ SkipWs(t, r.end) = Len(t) + 1 THEN r ELSE JFail

JsonLoads(t) == WholeText(t, JValue(t, SkipWs(t, 1)))

-----------------------------------------------------------------------------
(* ResponseParser._extract_json                                            *)

RECURSIVE FirstIndexOf(_, _, _)
FirstIndexOf(t, tok, i) ==
    IF i > Len(t) THEN 0
    ELSE IF t[i] = tok THEN i ELSE FirstIndexOf(t, tok, i + 1)

RECURSIVE LastIndexOf(_, _, _)
LastIndexOf(t, tok, i) ==
    IF i < 1 THEN 0
    ELSE IF t[i] = tok THEN i ELSE LastIndexOf(t, tok, i - 1)

\* re.search(r'\{.*\}', text, re.DOTALL): from the first opening brace to
\* the last closing brace after it.
SpanBetween(t, f, l) ==
    IF f > 0 /\ l > f THEN [found |-> TRUE, span |-> SubSeq(t, f, l)]
    ELSE [found |-> FALSE, span |-> <<>>]

BraceSpan(t) ==
    SpanBetween(t, FirstIndexOf(t, "{", 1), LastIndexOf(t, "}", Len(t)))

\* What _extract_json returns for a json.loads outcome: the value, or None
\* (some = FALSE).
Decoded(r) ==
    IF r.ok THEN [some |-> TRUE, val |-> r.val]
    ELSE [some |-> FALSE, val |-> JFail.val]

\* The except branch of _extract_json: the brace span, if one is found and
\* json.loads accepts it.
FromSpan(m) == IF m.found THEN Decoded(JsonLoads(m.span)) ELSE Decoded(JFail)

OrFromSpan(whole, t) == IF whole.ok THEN Decoded(whole) ELSE FromSpan(BraceSpan(t))

\* _extract_json: the decoded value of the whole text, else of the brace
\* span, else None.
ExtractJson(t) == OrFromSpan(JsonLoads(t), t)

-----------------------------------------------------------------------------
(* Regular expressions of the section extractors                           *)

\* Case variants of the words of the alphabet (re.IGNORECASE, str.upper()).
Upper(tok) ==
    CASE tok \in {"Technical", "technical"} -> "TECHNICAL"
      [] tok \in {"Analysis", "analysis"} -> "ANALYSIS"
      [] tok \in {"Risk", "risk"} -> "RISK"
      [] tok \in {"Assessment", "assessment"} -> "ASSESSMENT"
      [] tok \in {"Mitigation", "mitigation"} -> "MITIGATION"
      [] tok \in {"Resolution", "resolution"} -> "RESOLUTION"
      [] tok \in {"Prevention", "prevention"} -> "PREVENTION"
      [] tok \in {"Strategy", "strategy"} -> "STRATEGY"
      [] tok \in {"Incident", "incident"} -> "INCIDENT"
      [] tok \in {"Overview", "overview"} -> "OVERVIEW"
      [] tok \in {"Timeline", "timeline"} -> "TIMELINE"
      [] tok \in {"Summary", "summary"} -> "SUMMARY"
      [] tok \in {"Executive", "executive"} -> "EXECUTIVE"
      [] tok \in {"Recommendations", "recommendations"} -> "RECOMMENDATIONS"
      [] tok \in {"And", "and"} -> "AND"
      [] tok \in {"Next", "next"} -> "NEXT"
      [] tok \in {"Steps", "steps"} -> "STEPS"
      [] tok \in {"Cap", "cap"} -> "CAP"
      [] tok \in {"Sap", "sap"} -> "SAP"
      [] tok \in {"a", "b", "c", "d"} ->
           (CASE tok = "a" -> "A" [] tok = "b" -> "B" [] tok = "c" -> "C"
              [] tok = "d" -> "D")
      [] OTHER -> tok

\* Elements of a pattern besides literal tokens: \s* and \d.
S == "\\s*"
D == "\\d"

\* A literal phrase: its words separated by single spaces.
RECURSIVE Ph(_)
Ph(words) ==
    IF Len(words) <= 1 THEN words
    ELSE <<Head(words), " ">> \o Ph(Tail(words))

\* Match pattern elements k.. of pat at position i of t, case-insensitively;
\* the position after the match, 0 if there is none.  \s* is greedy, and no
\* pattern follows it with whitespace, so it never gives anything back.
RECURSIVE MatchFrom(_, _, _, _)
MatchFrom(t, i, pat, k) ==
    IF k > Len(pat) THEN i
    ELSE IF pat[k] = S THEN MatchFrom(t, SkipWs(t, i), pat, k + 1)
    ELSE IF pat[k] = D
         THEN IF TokAt(t, i) \in Digits THEN MatchFrom(t, i + 1, pat, k + 1)
              ELSE 0
    ELSE IF i <= Len(t) /\ Upper(t[i]) = Upper(pat[k])
         THEN MatchFrom(t, i + 1, pat, k + 1)
    ELSE 0

MatchAt(t, i, pat) == MatchFrom(t, i, pat, 1)

\* The first alternative of alts (tried in order) that matches at i.
RECURSIVE MatchAlts(_, _, _, _)
OrNextAlt(m, t, i, alts, a) == IF m > 0 THEN m ELSE MatchAlts(t, i, alts, a + 1)

MatchAlts(t, i, alts, a) ==
    IF a > Len(alts) THEN 0
    ELSE OrNextAlt(MatchAt(t, i, alts[a]), t, i, alts, a)

\* ^ under re.MULTILINE.
BOL(t, i) == i = 1 \/ (i >= 2 /\ i <= Len(t) + 1 /\ t[i - 1] = "\n")

\* $ without re.MULTILINE: the end, or just before a final newline.
EndDollar(t, i) == i = Len(t) + 1 \/ (i = Len(t) /\ t[i] = "\n")

\* re.search for a section header: the position after the leftmost match of
\* the part of the pattern before the capture group (heading and \s*), 0 if
\* there is none.  An anchored
\* pattern, (?:^|\n)..., finds the heading at the start of a line only.
RECURSIVE FindHeader(_, _, _)
OrFurtherOn(m, t, pat, i) == IF m > 0 THEN m ELSE FindHeader(t, pat, i + 1)

FindHeader(t, pat, i) ==
    IF i > Len(t) THEN 0
    ELSE IF ~pat.anchored \/ BOL(t, i)
         THEN OrFurtherOn(MatchAlts(t, i, pat.alts, 1), t, pat, i)
    ELSE FindHeader(t, pat, i + 1)

\* The lookahead that ends the capture: (?=(?:^|\n)<stop>|$) under
\* re.MULTILINE for the anchored patterns ($ matches before every newline),
\* (?=<stop>|$) otherwise.
StopsAt(t, j, pat) ==
    IF pat.multiline
    THEN \/ j > Len(t)
         \/ t[j] = "\n"
         \/ BOL(t, j) /\ MatchAlts(t, j, pat.stops, 1) > 0
    ELSE \/ EndDollar(t, j)
         \/ MatchAlts(t, j, pat.stops, 1) > 0

\* (.*?) under re.DOTALL: the shortest capture from s that the lookahead
\* accepts.
RECURSIVE CaptureEnd(_, _, _)
CaptureEnd(t, j, pat) ==
    IF j > Len(t) \/ StopsAt(t, j, pat) THEN j
    ELSE CaptureEnd(t, j + 1, pat)

\* re.search(pattern, text, flags) followed by match.group(1).strip().
CaptureFrom(t, e, pat) ==
    IF e = 0 THEN [found |-> FALSE, content |-> <<>>]
    ELSE [found |-> TRUE,
          content |-> Strip(SubSeq(t, e, CaptureEnd(t, e, pat) - 1))]

SearchSection(t, pat) == CaptureFrom(t, FindHeader(t, pat, 1), pat)

Pattern(name, alts, anchored, multiline, stops) ==
    [name |-> name, alts |-> alts, anchored |-> anchored,
     multiline |-> multiline, stops |-> stops]

\* dict.update
Merge(a, b) ==
    [k \in DOMAIN a \cup DOMAIN b |-> IF k \in DOMAIN b THEN b[k] ELSE a[k]]

\* if content [and len(content) > minLen]
LongerThan(content, minLen) == content # <<>> /\ CharLen(content) > minLen

\* The sections of a pattern table whose stripped content is not empty and
\* longer than minLen.
Kept(hits, pats, minLen) ==
    LET names == {pats[k].name : k \in {x \in 1..Len(pats) :
                       hits[x].found /\ LongerThan(hits[x].content, minLen)}}
        index(n) == CHOOSE k \in 1..Len(pats) : pats[k].name = n
    IN  [n \in names |-> StrField(hits[index(n)].content)]

SectionsOf(t, pats, minLen) ==
    Kept([k \in 1..Len(pats) |-> SearchSection(t, pats[k])], pats, minLen)

-----------------------------------------------------------------------------
(* ResponseParser: KT sections and _clean_markdown_table                   *)

Hashes(n) == [k \in 1..n |-> "#"]

\* self.kt_section_patterns
KtSectionPatterns ==
    <<Pattern("kepner_tregoe_analysis",
              <<Hashes(3) \o <<" ">> \o Ph(<<"KEPNER-TREGOE", "PROBLEM", "ANALYSIS">>) \o <<S>>>>,
              FALSE, FALSE, <<Hashes(3) \o <<" ", "RECOMMENDATIONS">>>>),
      Pattern("is_is_not_table",
              <<Hashes(4) \o <<" ", "2", ".", " ">>
                \o Ph(<<"Problem", "Specification">>)
                \o <<" ", "(", "IS/IS", " ", "NOT", " ", "Analysis", ")", S>>>>,
              FALSE, FALSE, <<Hashes(4), Hashes(3)>>),
      Pattern("root_cause_analysis",
              <<Hashes(4) \o <<" ", "3", ".", " ">>
                \o Ph(<<"Root", "Cause", "Analysis">>) \o <<S>>>>,
              FALSE, FALSE, <<Hashes(4), Hashes(3)>>),
      Pattern("solution_development",
              <<Hashes(4) \o <<" ", "4", ".", " ">>
                \o Ph(<<"Solution", "Development">>) \o <<S>>>>,
              FALSE, FALSE, <<Hashes(4), Hashes(3)>>),
      Pattern("prevention_strategy",
              <<Hashes(4) \o <<" ", "5", ".", " ">>
                \o Ph(<<"Prevention", "Strategy">>) \o <<S>>>>,
              FALSE, FALSE, <<Hashes(4), Hashes(3)>>),
      Pattern("recommendations",
              <<Hashes(3) \o <<" ">>
                \o Ph(<<"RECOMMENDATIONS", "AND", "NEXT", "STEPS">>) \o <<S>>>>,
              FALSE, FALSE, <<Hashes(3)>>)>>

\* str.split('\n')
RECURSIVE SplitLines(_)
SplitLines(t) ==
    LET nl == FirstIndexOf(t, "\n", 1)
    IN  IF nl = 0 THEN <<t>>
        ELSE <<SubSeq(t, 1, nl - 1)>> \o SplitLines(SubSeq(t, nl + 1, Len(t)))

\* '\n'.join(lines)
RECURSIVE JoinLines(_)
JoinLines(lines) ==
    IF lines = <<>> THEN <<>>
    ELSE IF Len(lines) = 1 THEN lines[1]
    ELSE lines[1] \o <<"\n">> \o JoinLines(Tail(lines))

\* Mutant: the opening separator is added to every table line.
CleanTableLineAlwaysOpened(raw) ==
    LET line == Strip(raw)
        opened == <<"|", " ">> \o line
        closed == IF opened[Len(opened)] # "|" THEN opened \o <<" ", "|">>
                  ELSE opened
    IN  IF line # <<>> /\ Contains(line, "|") THEN <<closed>>
        ELSE IF line # <<>> /\ line[1] # "-" THEN <<line>>
        ELSE <<>>

\* One line of _clean_markdown_table: the cleaned line, or nothing.
CleanTableLine(raw) ==
    LET line == Strip(raw)
        opened == IF line[1] # "|" THEN <<"|", " ">> \o line ELSE line
        closed == IF opened[Len(opened)] # "|" THEN opened \o <<" ", "|">>
                  ELSE opened
    IN  IF line # <<>> /\ Contains(line, "|") THEN <<closed>>
        ELSE IF line # <<>> /\ line[1] # "-" THEN <<line>>
        ELSE <<>>

RECURSIVE CleanTableLines(_)
CleanTableLines(lines) ==
    IF lines = <<>> THEN <<>>
    ELSE CleanTableLine(Head(lines)) \o CleanTableLines(Tail(lines))

\* _clean_markdown_table
CleanMarkdownTable(t) == JoinLines(CleanTableLines(SplitLines(Strip(t))))

\* if content: any content at all is kept.
NonEmpty == 0

\* _parse_kt_sections
WithCleanTable(kt) ==
    IF "is_is_not_table" \in DOMAIN kt
    THEN [kt EXCEPT !["is_is_not_table"] =
               StrField(CleanMarkdownTable(kt["is_is_not_table"].v))]
    ELSE kt

ParseKtSections(t) == WithCleanTable(SectionsOf(t, KtSectionPatterns, NonEmpty))

-----------------------------------------------------------------------------
(* ResponseParser: formal RCA sections                                     *)

\* '### X\.\s*<phrase>\s*' and '##\s*X\.\s*<phrase>\s*'
H3(letter, words) == Hashes(3) \o <<" ", letter, ".", S>> \o Ph(words) \o <<S>>
H2(roman, words) == Hashes(2) \o <<S, roman, ".", S>> \o Ph(words) \o <<S>>

\* '(?:###?\s*)?(?:<first>|<second>)\s*': ### is tried before ##, and
\* both before no marker at all.
WithOptionalHashes(first, second) ==
    <<Hashes(3) \o <<S>> \o Ph(first) \o <<S>>,
      Hashes(3) \o <<S>> \o Ph(second) \o <<S>>,
      Hashes(2) \o <<S>> \o Ph(first) \o <<S>>,
      Hashes(2) \o <<S>> \o Ph(second) \o <<S>>,
      Ph(first) \o <<S>>,
      Ph(second) \o <<S>>>>

\* A pattern '(?:^|\n)<alts>(.*?)(?=(?:^|\n)<n hashes>|$)'.
Formal(name, alts, n) == Pattern(name, alts, TRUE, TRUE, <<Hashes(n)>>)

\* section_patterns of _parse_formal_rca_sections
FormalSectionPatterns ==
    <<Formal("executive_summary",
             <<H3("C", <<"Executive", "Summary">>),
               Ph(<<"Executive", "Summary">>) \o <<S>>>>, 2),
      Formal("timeline", <<H3("A", <<"Timeline">>)>>, 3),
      Formal("case_information", <<H3("B", <<"Case", "Information">>)>>, 3),
      Formal("problem_summary", <<H3("A", <<"Problem", "Summary">>)>>, 3),
      Formal("technical_analysis",
             <<H2("II", <<"TECHNICAL", "ANALYSIS">>)>>, 2),
      Formal("impact_assessment", <<H3("B", <<"Impact", "Assessment">>)>>, 3),
      Formal("root_cause", <<H3("C", <<"Root", "Cause", "Analysis">>)>>, 3),
      Formal("risk_assessment", <<H2("III", <<"RISK", "ASSESSMENT">>)>>, 2),
      Formal("likelihood_of_occurrence",
             <<H3("A", <<"Likelihood", "of", "Occurrence">>)>>, 3),
      Formal("vulnerability_assessment",
             <<H3("B", <<"Vulnerability", "in", "Existing", "Environment">>)>>, 3),
      Formal("risk_profile", <<H3("C", <<"Overall", "Risk", "Profile">>)>>, 3),
      Formal("mitigation_resolution",
             <<H2("IV", <<"MITIGATION", "AND", "RESOLUTION">>)>>, 2),
      Formal("workaround_solutions",
             <<H3("A", <<"Workaround", "Solutions">>)>>, 3),
      Formal("defect_resolution",
             <<H3("B", <<"Known", "Defect", "Resolution">>)>>, 3),
      Formal("new_defect_management",
             <<H3("C", <<"New", "Defect", "Management">>)>>, 3),
      Formal("recommended_changes",
             <<H3("D", <<"Recommended", "System/Environmental", "Changes">>)>>, 3),
      Formal("prevention", <<H2("V", <<"PREVENTION", "STRATEGY">>)>>, 2),
      Formal("current_prevention",
             <<H3("A", <<"Current", "Environment", "Prevention">>)>>, 3),
      Formal("future_prevention",
             <<H3("B", <<"Future", "Prevention", "Initiatives">>)>>, 3),
      Formal("monitoring_detection",
             <<H3("C", <<"Monitoring", "and", "Detection">>)>>, 3),
      Formal("customer_impact",
             WithOptionalHashes(<<"Customer", "Impact">>, <<"Impact">>), 2),
      Formal("technical_summary",
             WithOptionalHashes(<<"Technical", "Summary">>, <<"Summary">>), 2),
      Formal("next_steps",
             WithOptionalHashes(<<"Next", "Steps">>, <<"Steps">>), 2),
      Formal("escalation",
             WithOptionalHashes(<<"Escalation">>, <<"Escalated">>), 2)>>

\* Position of the first occurrence of the token sequence sep at or after
\* i, 0 if there is none.
RECURSIVE FindSeq(_, _, _)
FindSeq(t, sep, i) ==
    IF i + Len(sep) - 1 > Len(t) THEN 0
    ELSE IF SubSeq(t, i, i + Len(sep) - 1) = sep THEN i
    ELSE FindSeq(t, sep, i + 1)

\* re.split(r'\n## ', text)
RECURSIVE SplitMajor(_)
SplitMajor(t) ==
    LET sep == <<"\n", "#", "#", " ">>
        at == FindSeq(t, sep, 1)
    IN  IF at = 0 THEN <<t>>
        ELSE <<SubSeq(t, 1, at - 1)>>
             \o SplitMajor(SubSeq(t, at + Len(sep), Len(t)))

\* 'WORD' in header.upper(), for a word of the alphabet.
HasWord(header, word) == \E k \in 1..Len(header) : Upper(header[k]) = word

\* The key _extract_by_headers files a header under ("" for none).
HeaderKey(header) ==
    IF HasWord(header, "INCIDENT") \/ HasWord(header, "OVERVIEW")
    THEN "incident_overview"
    ELSE IF HasWord(header, "TECHNICAL") /\ HasWord(header, "ANALYSIS")
    THEN "technical_analysis"
    ELSE IF HasWord(header, "RISK") THEN "risk_assessment"
    ELSE IF HasWord(header, "MITIGATION") \/ HasWord(header, "RESOLUTION")
    THEN "mitigation_resolution"
    ELSE IF HasWord(header, "PREVENTION") THEN "prevention"
    ELSE ""

\* The loop of _extract_by_headers over major_sections[1:].
RECURSIVE HeaderSections(_, _)
HeaderSections(parts, sections) ==
    IF parts = <<>> THEN sections
    ELSE LET lines == SplitLines(Head(parts))
             header == Strip(lines[1])
             content == Strip(JoinLines(Tail(lines)))
             key == HeaderKey(header)
         IN  HeaderSections(Tail(parts),
                 IF key = "" THEN sections
                 ELSE Merge(sections, [k \in {key} |-> StrField(content)]))

\* _extract_by_headers
ExtractByHeaders(t) == HeaderSections(Tail(SplitMajor(t)), EmptyMap)

\* `len(content) > 10` and `len(sections) < 3` of _parse_formal_rca_sections
MinContentLen == 10
MinSections == 3

Substantial == MinContentLen

\* _parse_formal_rca_sections
WithBroaderSections(sections, t) ==
    IF Cardinality(DOMAIN sections) < MinSections
    THEN Merge(sections, ExtractByHeaders(t))
    ELSE sections

OrWholeText(sections, key, t) ==
    IF DOMAIN sections = {} THEN [k \in {key} |-> StrField(Strip(t))]
    ELSE sections

ParseFormalRcaSections(t) ==
    OrWholeText(
        WithBroaderSections(SectionsOf(t, FormalSectionPatterns, Substantial), t),
        "executive_summary", t)

-----------------------------------------------------------------------------
(* ResponseParser: initial analysis sections                               *)

\* The CAP line regex at position i,
\*   CAP\s+([^:]+)\s*:\s*([^:]+)\s*:\s*SAP\s+([^:]+)\s*:\s*([^:]+)\s*:\s*(.+)
\* Each [^:]+ runs to the next colon and needs one character at least; the
\* last group runs to the end of its line.  The groups are given stripped,
\* as the caller uses them.
\* c[1..4] are the positions of the next four colons after i (0 where there
\* is none), sap the position of the first non-blank after the second.
LineEnd(t, nl) == IF nl = 0 THEN Len(t) ELSE nl - 1

CapGroups(t, i, c, sap, q) ==
    IF /\ Upper(TokAt(t, i)) = "CAP"
       /\ IsWs(TokAt(t, i + 1))
       /\ c[1] >= i + 3
       /\ c[2] >= c[1] + 2
       /\ Upper(TokAt(t, sap)) = "SAP"
       /\ IsWs(TokAt(t, sap + 1))
       /\ c[3] >= sap + 3
       /\ c[4] >= c[3] + 2
       /\ \/ q <= Len(t)
          \/ \E r \in (c[4] + 1)..Len(t) : t[r] = " "
    THEN [ok |-> TRUE,
          groups |-> <<Strip(SubSeq(t, i + 2, c[1] - 1)),
                       Strip(SubSeq(t, c[1] + 1, c[2] - 1)),
                       Strip(SubSeq(t, sap + 2, c[3] - 1)),
                       Strip(SubSeq(t, c[3] + 1, c[4] - 1)),
                       IF q <= Len(t)
                       THEN Strip(SubSeq(t, q,
                                LineEnd(t, FirstIndexOf(t, "\n", q))))
                       ELSE <<>>>>]
    ELSE [ok |-> FALSE, groups |-> <<>>]

\* The positions of the next n colons after position i, 0 for a missing one.
RECURSIVE NextColons(_, _, _)
ColonsFrom(t, c, n) ==
    IF c = 0 THEN [k \in 1..n |-> 0] ELSE <<c>> \o NextColons(t, c, n - 1)

NextColons(t, i, n) ==
    IF n = 0 THEN <<>> ELSE ColonsFrom(t, FirstIndexOf(t, ":", i + 1), n)

CapWithColons(t, i, c) ==
    CapGroups(t, i, c, SkipWs(t, c[2] + 1), SkipWs(t, c[4] + 1))

CapMatchAt(t, i) == CapWithColons(t, i, NextColons(t, i, 4))

\* re.search of the CAP line regex: the leftmost position it matches at.
RECURSIVE CapSearch(_, _)
OrLaterCap(m, t, i) == IF m.ok THEN m ELSE CapSearch(t, i + 1)

CapSearch(t, i) ==
    IF i > Len(t) THEN [ok |-> FALSE, groups |-> <<>>]
    ELSE OrLaterCap(CapMatchAt(t, i), t, i)

\* A pattern 'n\)\s*<phrase>\s*(.*?)(?=\d\)|$)'.
Numbered(name, digit, words) ==
    Pattern(name, <<<<digit, ")", S>> \o Ph(words) \o <<S>>>>, FALSE, FALSE,
            <<<<D, ")">>>>)

\* section_patterns of _parse_initial_analysis_sections
InitialSectionPatterns ==
    <<Numbered("people", "1", <<"People">>),
      Numbered("timeline", "2", <<"Timeline">>),
      Numbered("technical_summary", "3", <<"Technical", "Summary">>),
      Numbered("impact", "4", <<"Impact">>),
      Numbered("next_steps", "5", <<"Next", "Steps">>),
      Numbered("escalation", "6", <<"Escalation">>),
      Numbered("recommendations", "7", <<"Recommendations">>)>>

CapFieldNames ==
    <<"cap_color", "cpe_case", "sap_case", "customer_name", "synopsis">>

\* _parse_initial_analysis_sections
CapFields(cap) ==
    IF cap.ok
    THEN [n \in SeqToSet(CapFieldNames) |->
            StrField(cap.groups[CHOOSE k \in 1..5 : CapFieldNames[k] = n])]
    ELSE EmptyMap

WithOverview(sections, t) ==
    IF DOMAIN sections \cap {"people", "timeline", "technical_summary"} = {}
    THEN Merge(sections, [k \in {"overview"} |-> StrField(Strip(t))])
    ELSE sections

ParseInitialAnalysisSections(t) ==
    WithOverview(Merge(CapFields(CapSearch(t, 1)),
                       SectionsOf(t, InitialSectionPatterns, NonEmpty)), t)

-----------------------------------------------------------------------------
(* ResponseParser.parse_llm_response                                       *)

AnalysisTypes ==
    {"kt-analysis_prompt", "formal_rca_prompt", "initial_analysis_prompt",
     "standard"}

Returned(fields) == [raised |-> FALSE, exc |-> "", fields |-> fields]
Raised(exc) == [raised |-> TRUE, exc |-> exc, fields |-> EmptyMap]

\* dict.update with the elements of a list: each must be a sequence of two
\* items, the first of them hashable.
RECURSIVE UpdateFromPairs(_, _)
UpdateFromPairs(fields, elems) ==
    IF elems = <<>> THEN Returned(fields)
    ELSE LET el == Head(elems)
         IN  IF el.n = -1 THEN Raised("TypeError")
             ELSE IF el.n # 2 THEN Raised("ValueError")
             ELSE IF ~Hashable(el.pair[1]) THEN Raised("TypeError")
             ELSE UpdateFromPairs(
                      Merge(fields, [k \in {KeyOf(el.pair[1])} |->
                                       Field(el.pair[2])]),
                      Tail(elems))

\* if json_data: result.update(json_data) -- for whatever json.loads gave.
\* A dict is merged; a falsy value is skipped; a list is taken as a list of
\* pairs; a non-empty str fails on its first character; a number or True is
\* not iterable.
UpdateWithJson(fields, extracted) ==
    IF ~extracted.some \/ ~extracted.val.truthy THEN Returned(fields)
    ELSE CASE extracted.val.type = "dict" ->
                Returned(Merge(fields, extracted.val.map))
           [] extracted.val.type = "list" ->
                UpdateFromPairs(fields, extracted.val.map["elems"])
           [] extracted.val.type = "str" -> Raised("ValueError")
           [] OTHER -> Raised("TypeError")

\* result = {}; result['raw_response'] = response_text
RawOnly(t) == [k \in {"raw_response"} |-> StrField(t)]

\* The KT branch after the JSON step: the KT sections are merged over it,
\* unless the update raised.
ThenKtSections(withJson, t) ==
    IF withJson.raised THEN withJson
    ELSE Returned(Merge(withJson.fields, ParseKtSections(t)))

\* parse_llm_response: the returned dict, or the exception that escapes.
ParseLlmResponse(t, atype) ==
    CASE atype = "kt-analysis_prompt" ->
           ThenKtSections(UpdateWithJson(RawOnly(t), ExtractJson(t)), t)
      [] atype = "formal_rca_prompt" ->
           Returned(Merge(RawOnly(t), ParseFormalRcaSections(t)))
      [] atype = "initial_analysis_prompt" ->
           Returned(Merge(RawOnly(t), ParseInitialAnalysisSections(t)))
      [] OTHER -> UpdateWithJson(RawOnly(t), ExtractJson(t))

\* create_fallback_analysis
CreateFallbackAnalysis(t) ==
    [k \in {"executive_summary", "problem_statement", "raw_content",
            "parsing_error"} |->
        CASE k = "executive_summary" ->
               StrField(<<"Analysis parsing failed. Please check the raw response.">>)
          [] k = "problem_statement" ->
               StrField(<<"Unable to parse structured response">>)
          [] k = "raw_content" -> StrField(t)
          [] k = "parsing_error" -> [type |-> "bool", v |-> <<"true">>]]

-----------------------------------------------------------------------------
(* Completions the parser is run on                                        *)

Line(words) == Ph(words) \o <<"\n">>

JsonSummary == <<"{", "\"executive_summary\"", ":", "\"ok\"", "}">>
JsonRaw == <<"{", "\"raw_response\"", ":", "\"x\"", "}">>
JsonRecommendations ==
    <<"{", "\"recommendations\"", ":", " ", "\"from json\"", "}", "\n">>

\* The headed part of the end-to-end example of the specification.
ExampleSections ==
    Hashes(3) \o <<" ">> \o Line(<<"Timeline">>)
    \o Line(<<"Event", "A", "happened">>)
    \o Hashes(3) \o <<" ">> \o Line(<<"Root", "Cause">>)
    \o <<"Misconfiguration">>

FormalTimelineFiller ==
    Line(<<"Event", "A", "happened">>) \o Line(<<"second", "line", "here">>)

FormalTimeline ==
    Hashes(3) \o <<" ", "A", ".", " ">> \o Line(<<"Timeline">>)
    \o FormalTimelineFiller

FormalRootCauseFiller == Line(<<"Misconfiguration", "of", "the", "cache">>)

FormalRootCause ==
    Hashes(3) \o <<" ", "C", ".", " ">> \o Line(<<"Root", "Cause", "Analysis">>)
    \o FormalRootCauseFiller

FormalTechnical ==
    <<"\n">> \o Hashes(2) \o <<" ", "II", ".", " ">>
    \o Line(<<"Technical", "Analysis">>)
    \o Line(<<"short">>)

KtRootCauseFiller == Line(<<"line", "one">>) \o Line(<<"line", "two">>)

KtRootCause ==
    Hashes(4) \o <<" ", "3", ".", " ">> \o Line(<<"Root", "Cause", "Analysis">>)
    \o KtRootCauseFiller

KtTable ==
    Hashes(4) \o <<" ", "2", ".", " ">>
    \o Ph(<<"Problem", "Specification">>)
    \o <<" ", "(", "IS/IS", " ", "NOT", " ", "Analysis", ")", "\n">>
    \o <<" ", "IS", " ", "|", " ", "IS", " ", "NOT", " ", "\n">>
    \o <<"-", "-", "-", "|", "-", "-", "-", "\n">>
    \o <<"-", " ", "bullet", "\n">>
    \o Line(<<"plain", "text">>)

KtRecommendationsFiller == Line(<<"from", "section">>)

KtRecommendations ==
    Hashes(3) \o <<" ">> \o Line(<<"RECOMMENDATIONS", "AND", "NEXT", "STEPS">>)
    \o KtRecommendationsFiller

InitialPeopleFiller == Line(<<"Alice">>) \o Line(<<"Bob">>)

InitialPeople == <<"1", ")", " ">> \o Line(<<"People">>) \o InitialPeopleFiller

InitialTimelineFiller == Line(<<"day", "one">>)

InitialTimeline ==
    <<"2", ")", " ">> \o Line(<<"Timeline">>) \o InitialTimelineFiller

CapLine ==
    <<"CAP", " ", "Red", " ", ":", " ", "CPE-1", " ", ":", " ", "SAP", " ",
      "77", " ", ":", " ", "Acme", " ", ":", " ", "disk", " ", "failure", "\n">>

\* The pieces completions are put together from.
Segments ==
    {JsonSummary, JsonRaw, JsonRecommendations, ExampleSections,
     FormalTimeline, FormalRootCause, FormalTechnical,
     KtRootCause, KtTable, KtRecommendations,
     InitialPeople, InitialTimeline, CapLine,
     <<"5">>, <<"\"ok\"">>, <<"[", "5", "]">>, <<"null">>,
     <<"[", "\"ok\"", "]">>, <<"{", "bad", "}">>, <<"noise">>, <<"\n">>}

\* Number of segments a completion is made of, at most.
MaxSegments == 2

RECURSIVE TextsUpTo(_)
TextsUpTo(n) ==
    IF n = 0 THEN {<<>>}
    ELSE LET shorter == TextsUpTo(n - 1)
         IN  shorter \cup {p \o seg : p \in shorter, seg \in Segments}

NotParsed ==
    [done |-> FALSE, raised |-> FALSE, exc |-> "", fields |-> EmptyMap]

\* A completion and an analysis type, before parse_llm_response runs.
InitParser ==
    /\ response_text \in TextsUpTo(MaxSegments)
    /\ analysis_type \in AnalysisTypes
    /\ parsed = NotParsed

\* parse_llm_response(response_text, analysis_type)
Outcome(r) ==
    [done |-> TRUE, raised |-> r.raised, exc |-> r.exc, fields |-> r.fields]

Parse ==
    /\ ~parsed.done
    /\ parsed' = Outcome(ParseLlmResponse(response_text, analysis_type))
    /\ UNCHANGED <<response_text, analysis_type, llmVars, jsonVars>>

NextParser ==
    Parse /\ UNCHANGED <<tableVars, engineVars, uiVars, appVars>>

\* A markdown code-fence marker, in its tilde spelling.
Fence == "~~~"

\* Prose that may surround a JSON object in a completion.
Prose ==
    {<<>>,
     <<"Here", " ", "is", " ", "the", " ", "analysis", ":", "\n">>,
     <<Fence, "json", "\n">>,
     <<"\n", Fence>>,
     <<"\n", "Regards">>,
     <<"see", " ", "{", "x", "}", " ">>,
     <<" ", "(", "set", " ", "{", "x", "}", ")">>}

\* JSON objects as text.
ObjectTexts ==
    {JsonSummary, JsonRaw, <<"{", "}">>,
     <<"{", "\n", " ", "\"executive_summary\"", ":", " ", "\"ok\"", ",", "\n",
       " ", "\"recommendations\"", ":", " ", "[", "\"x\"", ",", "5", "]", "\n", "}">>,
     <<"{", "\"x\"", ":", "{", "\"ok\"", ":", "-", "1", ".", "5", "}", "}">>}

NoJson == [some |-> FALSE, val |-> JFail.val]

InitJson ==
    /\ json_in \in [before : Prose, object : ObjectTexts, after : Prose]
    /\ json_out = [done |-> FALSE, wrapped |-> NoJson, bare |-> NoJson]

\* _extract_json on the object inside its prose, and on the object alone.
ExtractBoth ==
    /\ ~json_out.done
    /\ json_out' =
         [done |-> TRUE,
          wrapped |-> ExtractJson(json_in.before \o json_in.object
                                  \o json_in.after),
          bare |-> ExtractJson(json_in.object)]
    /\ UNCHANGED <<json_in, llmVars, parserVars>>

NextJson ==
    ExtractBoth /\ UNCHANGED <<tableVars, engineVars, uiVars, appVars>>

\* Lines a table section may hold: rows, divider lines with and without
\* pipes, plain text, a bullet and an empty line.
TableLines ==
    {<<" ", " ", "a", " ", "|", " ", "b", " ", " ">>,
     <<"|", " ", "a", " ", "|", " ", "b", " ", "|">>,
     <<"-", "-", "-", "|", "-", "-", "-">>,
     <<"|", "-", "-", "-", "|", "-", "-", "-", "|">>,
     <<"-", "-", "-">>,
     <<"-", " ", "bullet">>,
     <<"plain", " ", "text">>,
     <<>>}

\* Number of lines of a table text, at most.
MaxTableLines == 3

RECURSIVE LinesUpTo(_)
LinesUpTo(n) ==
    IF n = 0 THEN {<<>>}
    ELSE LET shorter == LinesUpTo(n - 1)
         IN  shorter \cup {p \o <<line>> : p \in shorter, line \in TableLines}

NotCleaned == [done |-> FALSE, text |-> <<>>]

InitTable ==
    /\ table_in \in LinesUpTo(MaxTableLines) \ {<<>>}
    /\ table_out = NotCleaned

\* _clean_markdown_table(table_text), table_text being the lines of
\* table_in joined by newlines.
CleanTable ==
    /\ ~table_out.done
    /\ table_out' = [done |-> TRUE,
                     text |-> CleanMarkdownTable(JoinLines(table_in))]
    /\ UNCHANGED <<table_in, llmVars, parserVars, jsonVars>>

NextTable == CleanTable /\ UNCHANGED <<engineVars, uiVars, appVars>>

TableIdle ==
    /\ table_in = <<>>
    /\ table_out = NotCleaned

-----------------------------------------------------------------------------
(* RCAEngine (src/src/core/analysis/rca_engine.py)                         *)

\* File paths as sequences of components; Path(p).name is the last one.
PathName(path) == IF path = <<>> THEN "" ELSE path[Len(path)]

FileChoices ==
    {<<>>, << <<"logs", "app.log">> >>,
     << <<"logs", "app.log">>, <<"core.txt">> >>}

UrlChoices == {<<>>, <<"http://kb/1">>}

TicketChoices == {<<>>, <<"CPE-1">>}

\* Configurations the engine is run with: openai and anthropic may be
\* configured, anthropic may be the default.
EngineConfigs ==
    {c \in Configs : /\ ~c.openrouter_api_key
                     /\ ~c.llmproxy_api_key
                     /\ ~c.llmproxy_base_url
                     /\ c.default_llm \in {None, "anthropic"}}

JsonSourcesUsed == <<"{", "\"sources_used\"", ":", "[", "\"x\"", "]", "}">>

\* Completions a provider returns to the engine.
EngineCompletions == {JsonSummary, JsonSourcesUsed, <<"noise">>, <<"5">>}

ReadErrors == {"File read error"}

NoArgs == [files |-> <<>>, urls |-> <<>>, jira_tickets |-> <<>>,
           analysis_type |-> "formal_rca_prompt"]

NoResult == [some |-> FALSE]

NoSourceData == <<"No source data available for analysis.">>

\* The sources in the order the three loops of _collect_source_data read
\* them.
Tagged(kind, names) == [k \in 1..Len(names) |-> [kind |-> kind, name |-> names[k]]]

SourcesOf(args) ==
    Tagged("File", args.files) \o Tagged("URL", args.urls)
    \o Tagged("Jira Ticket", args.jira_tickets)

\* _build_sources_list
BuildSourcesList(files, urls, jira_tickets) ==
    [k \in 1..Len(files) |-> <<"File: ", PathName(files[k])>>]
    \o [k \in 1..Len(urls) |-> <<"URL: ", urls[k]>>]
    \o [k \in 1..Len(jira_tickets) |-> <<"Jira: ", jira_tickets[k]>>]

\* The state after RCAEngine.__init__.
InitEngine ==
    /\ mcp_client = FALSE
    /\ eng_pc = "idle"
    /\ eng_args = NoArgs
    /\ pending = <<>>
    /\ read_log = <<>>
    /\ data_parts = <<>>
    /\ source_data = <<>>
    /\ parsed_analysis = NotParsed
    /\ eng_result = NoResult
    /\ eng_error = <<>>
    /\ written = <<>>

\* set_mcp_client
SetMcpClient ==
    /\ eng_pc = "idle"
    /\ ~mcp_client
    /\ mcp_client' = TRUE
    /\ UNCHANGED <<eng_pc, eng_args, pending, read_log, data_parts,
                   source_data, parsed_analysis, eng_result, eng_error, written>>
    /\ UNCHANGED <<llmVars, parserVars, jsonVars, tableVars>>

\* generate_analysis up to the first read of _collect_source_data; without
\* an MCP client _collect_source_data raises ValueError at once.
EngineGenerateAnalysis(files, urls, jira_tickets, atype) ==
    /\ eng_pc = "idle"
    /\ pc = "idle"
    /\ eng_args' = [files |-> files, urls |-> urls,
                    jira_tickets |-> jira_tickets, analysis_type |-> atype]
    /\ read_log' = <<>>
    /\ data_parts' = <<>>
    /\ source_data' = <<>>
    /\ parsed_analysis' = NotParsed
    /\ eng_result' = NoResult
    /\ written' = <<>>
    /\ IF mcp_client
       THEN /\ eng_pc' = "collect"
            /\ pending' = SourcesOf(eng_args')
            /\ eng_error' = <<>>
       ELSE /\ eng_pc' = "raised"
            /\ pending' = <<>>
            /\ eng_error' = <<"MCP client not initialized">>
    /\ UNCHANGED mcp_client
    /\ UNCHANGED <<llmVars, parserVars, jsonVars, tableVars>>

\* One pass of a loop of _collect_source_data, try branch: the content is
\* appended under a heading naming the source.
ReadSucceeds(content) ==
    /\ eng_pc = "collect"
    /\ pending # <<>>
    /\ read_log' = Append(read_log, [source |-> Head(pending), ok |-> TRUE,
                                     text |-> content])
    /\ data_parts' = Append(data_parts,
                            [kind |-> Head(pending).kind,
                             name |-> Head(pending).name,
                             content |-> content])
    /\ pending' = Tail(pending)
    /\ UNCHANGED <<mcp_client, eng_pc, eng_args, source_data, parsed_analysis,
                   eng_result, eng_error, written>>
    /\ UNCHANGED <<llmVars, parserVars, jsonVars, tableVars>>

\* One pass of a loop of _collect_source_data, except branch: a warning is
\* logged and the loop goes on; data_parts is not touched.
ReadFails(err) ==
    /\ eng_pc = "collect"
    /\ pending # <<>>
    /\ read_log' = Append(read_log, [source |-> Head(pending), ok |-> FALSE,
                                     text |-> err])
    /\ pending' = Tail(pending)
    /\ UNCHANGED <<mcp_client, eng_pc, eng_args, data_parts, source_data,
                   parsed_analysis, eng_result, eng_error, written>>
    /\ UNCHANGED <<llmVars, parserVars, jsonVars, tableVars>>

\* "\n".join(data_parts), or the fixed sentence when nothing was read.
Collected(parts) == IF parts = <<>> THEN NoSourceData ELSE parts

\* _collect_source_data returns, the prompt is built and
\* llm_client.generate_analysis is entered with the configured default as
\* preferred provider.
CallLLM ==
    /\ eng_pc = "collect"
    /\ pending = <<>>
    /\ source_data' = Collected(data_parts)
    /\ eng_pc' = "llm"
    /\ GenerateAnalysis(config.default_llm)
    /\ UNCHANGED <<mcp_client, eng_args, pending, read_log, data_parts,
                   parsed_analysis, eng_result, eng_error, written>>
    /\ UNCHANGED tableVars

\* The steps of llm_client.generate_analysis while the engine awaits it.
AwaitLLM ==
    /\ eng_pc = "llm"
    /\ \/ \E text \in EngineCompletions : ProviderSucceeds(text)
       \/ \E err \in ErrorTexts : ProviderFails(err)
       \/ ProviderNeverResponds
       \/ AllProvidersFailed
    /\ UNCHANGED <<tableVars, engineVars>>

\* Lines 87-88: sources_used is added unless the parsed record has the key.
WithSourcesUsed(analysis, args) ==
    IF "sources_used" \in DOMAIN analysis THEN analysis
    ELSE Merge(analysis,
               [k \in {"sources_used"} |->
                  [type |-> "list",
                   v |-> BuildSourcesList(args.files, args.urls,
                                          args.jira_tickets)]])

\* Lines 75-84, with parsed_analysis as updated by lines 87-88 (result
\* holds the same dict object).
ResultOf(analysis, args) ==
    [some |-> TRUE,
     analysis |-> WithSourcesUsed(analysis, args),
     prompt_file_used |-> args.analysis_type,
     timestamp |-> "now",
     sources_count |-> [files |-> Len(args.files), urls |-> Len(args.urls),
                        jira_tickets |-> Len(args.jira_tickets)]]

\* Lines 91-97: the document (formal RCA only) and the JSON report are
\* written; a failing write raises out of generate_analysis.
WrittenFiles(atype, doc_ok, json_ok) ==
    (IF atype = "formal_rca_prompt" /\ doc_ok THEN <<"document">> ELSE <<>>)
    \o (IF (atype = "formal_rca_prompt" => doc_ok) /\ json_ok
        THEN <<"json">> ELSE <<>>)

WritesSucceed(atype, doc_ok, json_ok) ==
    (atype = "formal_rca_prompt" => doc_ok) /\ json_ok

\* Mutant: sources_used is always overwritten with the built list.
FinishWithOverwrite(p, doc_ok, json_ok) ==
    /\ parsed_analysis' = Outcome(p)
    /\ IF p.raised
       THEN /\ eng_pc' = "raised"
            /\ eng_error' = <<p.exc>>
            /\ eng_result' = NoResult
            /\ written' = <<>>
       ELSE /\ written' = WrittenFiles(eng_args.analysis_type, doc_ok, json_ok)
            /\ IF WritesSucceed(eng_args.analysis_type, doc_ok, json_ok)
               THEN /\ eng_pc' = "returned"
                    /\ eng_error' = <<>>
                    /\ eng_result' =
                          ResultOf([k \in DOMAIN p.fields \ {"sources_used"}
                                       |-> p.fields[k]], eng_args)
               ELSE /\ eng_pc' = "raised"
                    /\ eng_error' = <<"OSError">>
                    /\ eng_result' = NoResult

\* Lines 72-100 for the outcome p of parse_llm_response.
FinishWith(p, doc_ok, json_ok) ==
    /\ parsed_analysis' = Outcome(p)
    /\ IF p.raised
       THEN /\ eng_pc' = "raised"
            /\ eng_error' = <<p.exc>>
            /\ eng_result' = NoResult
            /\ written' = <<>>
       ELSE /\ written' = WrittenFiles(eng_args.analysis_type, doc_ok, json_ok)
            /\ IF WritesSucceed(eng_args.analysis_type, doc_ok, json_ok)
               THEN /\ eng_pc' = "returned"
                    /\ eng_error' = <<>>
                    /\ eng_result' = ResultOf(p.fields, eng_args)
               ELSE /\ eng_pc' = "raised"
                    /\ eng_error' = <<"OSError">>
                    /\ eng_result' = NoResult

\* llm_client.generate_analysis returned: the completion is parsed, the
\* result is built and the files are written.
EngineFinish(doc_ok, json_ok) ==
    /\ eng_pc = "llm"
    /\ pc = "returned"
    /\ CallCompleted
    /\ FinishWith(ParseLlmResponse(response, eng_args.analysis_type),
                  doc_ok, json_ok)
    /\ UNCHANGED <<mcp_client, eng_args, pending, read_log, data_parts,
                   source_data>>
    /\ UNCHANGED tableVars

\* Mutant: the failure of all providers is turned into a fallback record
\* that is parsed and saved.
EnginePropagateFallback ==
    /\ eng_pc = "llm"
    /\ pc = "raised"
    /\ CallCompleted
    /\ FinishWith(ParseLlmResponse(<<>>, eng_args.analysis_type), TRUE, TRUE)
    /\ UNCHANGED <<mcp_client, eng_args, pending, read_log, data_parts,
                   source_data>>
    /\ UNCHANGED tableVars

\* llm_client.generate_analysis raised: the except clause of lines 102-104
\* logs and re-raises.
EnginePropagate ==
    /\ eng_pc = "llm"
    /\ pc = "raised"
    /\ CallCompleted
    /\ eng_pc' = "raised"
    /\ eng_error' = error_msg
    /\ UNCHANGED <<mcp_client, eng_args, pending, read_log, data_parts,
                   source_data, parsed_analysis, eng_result, written>>
    /\ UNCHANGED tableVars

\* The steps generate_analysis takes once it has been entered.
EngineSteps ==
    \/ \E content \in {"content"} : ReadSucceeds(content)
    \/ \E err \in ReadErrors : ReadFails(err)
    \/ CallLLM
    \/ AwaitLLM
    \/ \E doc_ok, json_ok \in BOOLEAN : EngineFinish(doc_ok, json_ok)
    \/ EnginePropagate

NextEngine ==
    /\ \/ SetMcpClient
       \/ \E files \in FileChoices, urls \in UrlChoices,
             tickets \in TicketChoices, atype \in AnalysisTypes :
             EngineGenerateAnalysis(files, urls, tickets, atype)
       \/ EngineSteps
    /\ UNCHANGED <<uiVars, appVars>>

EngineIdle == InitEngine

-----------------------------------------------------------------------------
(* RCAApp (src/src/ui/main_app.py): dropdown and analysis task             *)

\* RCAApp.PROMPT_OPTIONS
PromptOptions ==
    {"formal_rca_prompt", "initial_analysis_prompt", "kt-analysis_prompt"}

NoSources == [files |-> <<>>, urls |-> <<>>, jira_tickets |-> <<>>]

\* Inputs the user has added before starting an analysis.
SourceChoices ==
    {NoSources,
     [files |-> << <<"logs", "app.log">> >>, urls |-> <<>>,
      jira_tickets |-> <<>>],
     [files |-> <<>>, urls |-> <<"http://kb/1">>, jira_tickets |-> <<"CPE-1">>]}

\* The state after RCAApp.__init__ (lines 53-73).
InitUI ==
    /\ ui_sources = NoSources
    /\ selected_prompt = "formal_rca_prompt"
    /\ analysis_result = NoResult
    /\ analysis_status = None
    /\ analysis_error = <<>>
    /\ current_step = 0
    /\ ui_pc = "idle"
    /\ status_timer = FALSE
    /\ task_result = NoResult

\* The user adds files, URLs or tickets to the empty lists.
AddSources(sources) ==
    /\ ui_sources = NoSources
    /\ sources # NoSources
    /\ ui_sources' = sources
    /\ UNCHANGED <<status_timer, selected_prompt, analysis_result,
                   analysis_status, analysis_error, current_step, ui_pc,
                   task_result>>
    /\ UNCHANGED <<llmVars, parserVars, jsonVars, tableVars, engineVars>>

\* on_prompt_select: the handler runs between any two steps of the task.
OnPromptSelect(value) ==
    /\ selected_prompt' = value
    /\ UNCHANGED <<status_timer, ui_sources, analysis_result, analysis_status,
                   analysis_error, current_step, ui_pc, task_result>>
    /\ UNCHANGED <<llmVars, parserVars, jsonVars, tableVars, engineVars>>

\* start_analysis: with at least one source the task is created.
StartAnalysis ==
    /\ ui_pc = "idle"
    /\ ui_sources # NoSources
    /\ status_timer' = TRUE
    /\ analysis_status' = "running"
    /\ analysis_error' = <<>>
    /\ analysis_result' = NoResult
    /\ current_step' = 0
    /\ ui_pc' = "created"
    /\ UNCHANGED <<ui_sources, selected_prompt, task_result>>
    /\ UNCHANGED <<llmVars, parserVars, jsonVars, tableVars, engineVars>>

\* The progress step the task shows next after step k, before the engine
\* is called: 1, then 2, 3, 4 for the kinds of sources present, then 5.
NextStep(k, sources) ==
    IF k = 0 THEN 1
    ELSE IF k = 1 /\ sources.files # <<>> THEN 2
    ELSE IF k <= 2 /\ sources.urls # <<>> THEN 3
    ELSE IF k <= 3 /\ sources.jira_tickets # <<>> THEN 4
    ELSE 5

\* _generate_analysis_async, lines 531-551: the task sets a step and
\* yields in asyncio.sleep.
TaskBegin ==
    /\ ui_pc = "created"
    /\ current_step' = 0
    /\ ui_pc' = "sleeping"
    /\ UNCHANGED <<status_timer, ui_sources, selected_prompt, analysis_result,
                   analysis_status, analysis_error, task_result>>
    /\ UNCHANGED <<llmVars, parserVars, jsonVars, tableVars, engineVars>>

TaskStep ==
    /\ ui_pc = "sleeping"
    /\ NextStep(current_step, ui_sources) < 5
    /\ current_step' = NextStep(current_step, ui_sources)
    /\ UNCHANGED <<status_timer, ui_sources, selected_prompt, analysis_result,
                   analysis_status, analysis_error, ui_pc, task_result>>
    /\ UNCHANGED <<llmVars, parserVars, jsonVars, tableVars, engineVars>>

\* Lines 554-563: the engine is called with the dropdown value of now.
TaskCallEngine ==
    /\ ui_pc = "sleeping"
    /\ NextStep(current_step, ui_sources) = 5
    /\ current_step' = 5
    /\ ui_pc' = "engine"
    /\ EngineGenerateAnalysis(ui_sources.files, ui_sources.urls,
                              ui_sources.jira_tickets, selected_prompt)
    /\ UNCHANGED <<status_timer, ui_sources, selected_prompt, analysis_result,
                   analysis_status, analysis_error, task_result>>

\* The engine call runs while the task awaits it.
TaskAwaitEngine ==
    /\ ui_pc = "engine"
    /\ EngineSteps
    /\ UNCHANGED uiVars

\* The engine coroutine is finished: its locals and its outcome are gone,
\* the arguments of the latest call and the files it wrote are kept.
EngineCallCompleted ==
    /\ eng_pc \in {"returned", "raised"}
    /\ eng_pc' = "idle"
    /\ pending' = <<>>
    /\ read_log' = <<>>
    /\ data_parts' = <<>>
    /\ source_data' = <<>>
    /\ parsed_analysis' = NotParsed
    /\ eng_result' = NoResult
    /\ eng_error' = <<>>
    /\ UNCHANGED <<mcp_client, eng_args, written>>
    /\ UNCHANGED <<llmVars, parserVars, jsonVars, tableVars>>

\* Lines 565-567: the engine returned its result dict.
TaskEngineReturned ==
    /\ ui_pc = "engine"
    /\ eng_pc = "returned"
    /\ EngineCallCompleted
    /\ task_result' = eng_result
    /\ current_step' = 6
    /\ ui_pc' = "parsed"
    /\ UNCHANGED <<status_timer, ui_sources, selected_prompt, analysis_result,
                   analysis_status, analysis_error>>

\* Lines 580-584: the engine raised.
TaskEngineRaised ==
    /\ ui_pc = "engine"
    /\ eng_pc = "raised"
    /\ EngineCallCompleted
    /\ analysis_error' = eng_error
    /\ analysis_status' = "error"
    /\ ui_pc' = "idle"
    /\ UNCHANGED <<status_timer, ui_sources, selected_prompt, analysis_result,
                   current_step, task_result>>

\* Lines 569-574: prompt_file_used is set from the dropdown value of now.
TaskStorePromptUsed ==
    /\ ui_pc = "parsed"
    /\ task_result' = [task_result EXCEPT !.prompt_file_used = selected_prompt]
    /\ current_step' = 7
    /\ ui_pc' = "finalizing"
    /\ UNCHANGED <<status_timer, ui_sources, selected_prompt, analysis_result,
                   analysis_status, analysis_error>>
    /\ UNCHANGED <<llmVars, parserVars, jsonVars, tableVars, engineVars>>

\* Lines 576-578
TaskFinish ==
    /\ ui_pc = "finalizing"
    /\ analysis_result' = task_result
    /\ analysis_status' = "completed"
    /\ ui_pc' = "idle"
    /\ UNCHANGED <<status_timer, ui_sources, selected_prompt, analysis_error,
                   current_step, task_result>>
    /\ UNCHANGED <<llmVars, parserVars, jsonVars, tableVars, engineVars>>

\* _update_progress_display, the branches that end the status polling.
UpdateProgressDisplay ==
    /\ status_timer
    /\ analysis_status \in {"completed", "error"}
    /\ status_timer' = FALSE
    /\ analysis_status' = None
    /\ analysis_error' = IF analysis_status = "error" THEN <<>>
                         ELSE analysis_error
    /\ UNCHANGED <<ui_sources, selected_prompt, analysis_result, current_step,
                   ui_pc, task_result>>
    /\ UNCHANGED <<llmVars, parserVars, jsonVars, tableVars, engineVars>>

\* The Jira fetch state after __init__ (lines 76-79).
NoJiraFetch == [status |-> None, main_ticket |-> None, linked_issues |-> <<>>]

\* _cleanup_jira_fetch_state: the attributes are deleted.  A deleted
\* _jira_linked_issues reads as [] (getattr with default, line 351).
CleanedUp ==
    [status |-> "Unset", main_ticket |-> "Unset", linked_issues |-> <<>>]

\* clear_all: the lists and the result are reset, the dropdown goes back to
\* the formal RCA, the timers status_timer and _jira_check_timer refer to
\* are cancelled and the Jira fetch state is cleaned up; running tasks are
\* not cancelled and open dialogs stay open.
ClearAll ==
    /\ ui_sources' = NoSources
    /\ analysis_result' = NoResult
    /\ analysis_status' = None
    /\ analysis_error' = <<>>
    /\ selected_prompt' = "formal_rca_prompt"
    /\ status_timer' = FALSE
    /\ active_timers' = active_timers \ {status_timer_id}
    /\ status_timer_id' = 0
    /\ jira_check_timer' = [jira_check_timer EXCEPT !.ref = None]
    /\ jira_fetch' = CleanedUp
    /\ UNCHANGED <<current_step, ui_pc, task_result, running_tasks,
                   timer_count, fetch_tasks, dialogs>>
    /\ UNCHANGED <<llmVars, parserVars, jsonVars, tableVars, engineVars,
                   sanitizeVars, fileVars, fallbackVars>>

UITaskSteps ==
    /\ \/ \E sources \in SourceChoices : AddSources(sources)
       \/ \E value \in PromptOptions : OnPromptSelect(value)
       \/ StartAnalysis
       \/ TaskBegin
       \/ TaskStep
       \/ TaskCallEngine
       \/ TaskAwaitEngine
       \/ TaskEngineReturned
       \/ TaskEngineRaised
       \/ TaskStorePromptUsed
       \/ TaskFinish
       \/ UpdateProgressDisplay
    /\ UNCHANGED appVars

NextUI ==
    \/ UITaskSteps
    \/ ClearAll

UIIdle == InitUI

-----------------------------------------------------------------------------
(* FileHandler (src/src/utils/file_handler.py)                             *)
(* A filename is a sequence of characters.                                 *)

\* dangerous_chars of _sanitize_filename, in the order of the list.
DangerousChars ==
    << <<"/">>, <<"\\">>, <<".", ".">>, <<"~">>, <<"|">>, <<"&">>, <<";">>,
       <<"$">>, <<"`">>, <<"<">>, <<">">>, <<"(">>, <<")">>, <<"[">>, <<"]">>,
       <<"{">>, <<"}">>, <<"\"">>, <<"'">> >>

\* Lengths of the length limit of _sanitize_filename.
MaxFilenameLen == 255
NamePartLen == 200
ExtPartLen == 50

\* Positions from i on where the two characters of old stand.
PairsFrom(s, old, i) ==
    {j \in i..(Len(s) - 1) : s[j] = old[1] /\ s[j + 1] = old[2]}

\* s.replace(old, '_') for a two-character old, from position i on: the
\* next occurrence from the left is replaced and the search goes on behind
\* it, so occurrences do not overlap.
RECURSIVE ReplacePairFrom(_, _, _)
ReplacePairAt(s, old, i, found) ==
    IF found = {} THEN SubSeq(s, i, Len(s))
    ELSE SubSeq(s, i, (CHOOSE j \in found : \A k \in found : j <= k) - 1)
         \o <<"_">>
         \o ReplacePairFrom(s, old,
                (CHOOSE j \in found : \A k \in found : j <= k) + 2)

ReplacePairFrom(s, old, i) == ReplacePairAt(s, old, i, PairsFrom(s, old, i))

\* s.replace(old, '_')
StrReplace(s, old) ==
    IF Len(old) = 1
    THEN [i \in 1..Len(s) |-> IF s[i] = old[1] THEN "_" ELSE s[i]]
    ELSE ReplacePairFrom(s, old, 1)

\* The for loop over dangerous_chars, from entry k of the list on.
RECURSIVE ReplaceDangerous(_, _)
ReplaceDangerous(s, k) ==
    IF k > Len(DangerousChars) THEN s
    ELSE ReplaceDangerous(StrReplace(s, DangerousChars[k]), k + 1)

\* safe_filename[:200] + safe_filename[-50:] for a name over 255 characters
LimitLength(s) ==
    IF Len(s) > MaxFilenameLen
    THEN SubSeq(s, 1, NamePartLen) \o SubSeq(s, Len(s) - ExtPartLen + 1, Len(s))
    ELSE s

\* FileHandler._sanitize_filename
SanitizeFilename(filename) == LimitLength(ReplaceDangerous(filename, 1))

\* A filename of n characters: the characters of marks at their positions,
\* "a" everywhere else.
NameOf(n, marks) ==
    [i \in 1..n |-> IF i \in DOMAIN marks THEN marks[i] ELSE "a"]

\* Characters placed in a filename.
MarkChars == {"a", ".", "/"}

\* Short names: every name of three characters.
ShortNames == [1..3 -> MarkChars \cup {"\\", "$"}]

\* Long names: lengths around the limit, with characters placed at the
\* start, on both sides of the cut after name_part and at the start of
\* ext_part.
LongLens == {MaxFilenameLen, MaxFilenameLen + 1, MaxFilenameLen + 2}

LongNames ==
    UNION {{NameOf(n, [i \in {1, NamePartLen, NamePartLen + 1,
                              n - ExtPartLen + 1} |-> m[i]]) :
               m \in [{1, NamePartLen, NamePartLen + 1, n - ExtPartLen + 1}
                          -> MarkChars]} :
           n \in LongLens}

NotSanitized == [done |-> FALSE, name |-> <<>>]

InitSanitize ==
    /\ san_in \in ShortNames \cup LongNames
    /\ san_out = NotSanitized

\* One call of _sanitize_filename(san_in).
Sanitize ==
    /\ ~san_out.done
    /\ san_out' = [done |-> TRUE, name |-> SanitizeFilename(san_in)]
    /\ UNCHANGED <<san_in, fileVars, fallbackVars, timerVars, jiraVars>>

NextSanitize ==
    Sanitize /\ UNCHANGED <<llmVars, parserVars, jsonVars, tableVars,
                            engineVars, uiVars>>

SanitizeIdle ==
    /\ san_in = <<>>
    /\ san_out = NotSanitized

\* Index of the last "." of name, 0 when there is none (str.rfind + 1).
RECURSIVE LastDot(_, _)
LastDot(name, i) ==
    IF i = 0 THEN 0
    ELSE IF name[i] = "." THEN i
    ELSE LastDot(name, i - 1)

\* Path.suffix: from the last dot on, unless the dot starts or ends the name.
Suffix(name) ==
    IF 1 < LastDot(name, Len(name)) /\ LastDot(name, Len(name)) < Len(name)
    THEN SubSeq(name, LastDot(name, Len(name)), Len(name))
    ELSE <<>>

\* Path.stem: the name without its suffix.
Stem(name) == SubSeq(name, 1, Len(name) - Len(Suffix(name)))

\* str.lower on the characters the uploaded names hold.
Lower(name) == [i \in 1..Len(name) |-> IF name[i] = "T" THEN "t" ELSE name[i]]

\* FileHandler.allowed_extensions and max_size_bytes of the handler checked.
AllowedExtensions == {<<".", "t">>}
MaxSizeBytes == 50 * 1024 * 1024

\* File contents: two small ones and one over the size limit.
Contents ==
    {[data |-> "Content 1", size |-> 9], [data |-> "Content 2", size |-> 9],
     [data |-> "large", size |-> MaxSizeBytes + 1]}

\* Names of the uploaded files.
UploadNames ==
    {<<"a", ".", "t">>, <<"a", "_", "1", ".", "t">>, <<"a", "/", "1", ".", "T">>,
     <<"a", ".", "x">>}

\* Number of save_uploaded_file calls, at most.
MaxUploads == 3

\* validate_file for a file that exists.
ValidateFile(name, content) ==
    /\ Lower(Suffix(name)) \in AllowedExtensions
    /\ content.size <= MaxSizeBytes

\* The while loop of save_uploaded_file: the first of original,
\* stem_1suffix, stem_2suffix, ... that does not exist.
RECURSIVE FreePath(_, _, _, _)
FreePath(dir, original, file_path, counter) ==
    IF file_path \notin DOMAIN dir THEN file_path
    ELSE FreePath(dir, original,
                  Stem(original) \o <<"_", ToString(counter)>>
                      \o Suffix(original),
                  counter + 1)

\* open(file_path, 'wb') and f.write(file_content)
WriteFile(dir, file_path, content) ==
    [n \in DOMAIN dir \cup {file_path} |->
        IF n = file_path THEN content ELSE dir[n]]

EmptyDir == [n \in {} |-> [data |-> "", size |-> 0]]

NoPath == [ok |-> FALSE, path |-> <<>>]

InitFiles ==
    /\ upload_dir = EmptyDir
    /\ uploads = <<>>

\* The call wrote (or failed to write) file_path: the outcome of
\* save_uploaded_file.  An invalid file is written and deleted again.
SaveAt(file_path, file_content, filename, write_ok) ==
    /\ upload_dir' =
           IF write_ok /\ ValidateFile(file_path, file_content)
           THEN WriteFile(upload_dir, file_path, file_content)
           ELSE upload_dir
    /\ uploads' = Append(uploads,
           [filename |-> filename, content |-> file_content,
            returned |-> IF write_ok /\ ValidateFile(file_path, file_content)
                         THEN [ok |-> TRUE, path |-> file_path]
                         ELSE NoPath])

\* Mutant: the file is written at the sanitized name, existing or not.
SaveUploadedFileInPlace(file_content, filename, write_ok) ==
    /\ Len(uploads) < MaxUploads
    /\ SaveAt(SanitizeFilename(filename), file_content, filename, write_ok)
    /\ UNCHANGED <<sanitizeVars, fallbackVars, timerVars, jiraVars>>

\* FileHandler.save_uploaded_file; write_ok is FALSE when open or write
\* raises.
SaveUploadedFile(file_content, filename, write_ok) ==
    /\ Len(uploads) < MaxUploads
    /\ SaveAt(FreePath(upload_dir, SanitizeFilename(filename),
                       SanitizeFilename(filename), 1),
              file_content, filename, write_ok)
    /\ UNCHANGED <<sanitizeVars, fallbackVars, timerVars, jiraVars>>

NextFiles ==
    /\ \E file_content \in Contents, filename \in UploadNames,
          write_ok \in BOOLEAN :
          SaveUploadedFile(file_content, filename, write_ok)
    /\ UNCHANGED <<llmVars, parserVars, jsonVars, tableVars, engineVars,
                   uiVars>>

FilesIdle == InitFiles

-----------------------------------------------------------------------------
(* ResponseParser.create_fallback_analysis on long texts                   *)

\* The preview length of the fallback record (raw_text[:2000] of
\* RCAGenerator._create_fallback_analysis).
PreviewLen == 2000

\* A text of n characters.
TextOfLen(n) == [i \in 1..n |-> IF i % 10 = 0 THEN "\n" ELSE "a"]

\* Lengths of the texts: short ones and the lengths around the preview
\* length.
FallbackLens == 0..40 \cup (PreviewLen - 10)..(PreviewLen + 10)

NoFallback == [done |-> FALSE, fields |-> EmptyMap]

InitFallback ==
    /\ fb_in \in {TextOfLen(n) : n \in FallbackLens}
    /\ fb_out = NoFallback

\* One call of create_fallback_analysis(fb_in).
CreateFallback ==
    /\ ~fb_out.done
    /\ fb_out' = [done |-> TRUE, fields |-> CreateFallbackAnalysis(fb_in)]
    /\ UNCHANGED <<fb_in, sanitizeVars, fileVars, timerVars, jiraVars>>

NextFallback ==
    CreateFallback /\ UNCHANGED <<llmVars, parserVars, jsonVars, tableVars,
                                  engineVars, uiVars>>

FallbackIdle ==
    /\ fb_in = <<>>
    /\ fb_out = NoFallback

-----------------------------------------------------------------------------
(* RCAApp: the status timers of overlapping analyses                       *)
(* The analysis task is followed from its creation to its last             *)
(* assignment; the steps in between touch neither status nor timers.       *)

\* Number of status timers created, at most.
MaxTimers == 3

InitTimers ==
    /\ running_tasks = 0
    /\ timer_count = 0
    /\ active_timers = {}
    /\ status_timer_id = 0

\* start_analysis, invoked whether or not an analysis is running: the new
\* timer replaces the one status_timer referred to, which is not cancelled.
StartAnalysisAnyTime ==
    /\ ui_sources # NoSources
    /\ timer_count < MaxTimers
    /\ analysis_status' = "running"
    /\ analysis_error' = <<>>
    /\ analysis_result' = NoResult
    /\ current_step' = 0
    /\ running_tasks' = running_tasks + 1
    /\ timer_count' = timer_count + 1
    /\ active_timers' = active_timers \cup {timer_count + 1}
    /\ status_timer_id' = timer_count + 1
    /\ status_timer' = TRUE
    /\ UNCHANGED <<ui_sources, selected_prompt, ui_pc, task_result>>

\* _generate_analysis_async reaches lines 577-578.
AnalysisCompletes ==
    /\ running_tasks > 0
    /\ running_tasks' = running_tasks - 1
    /\ analysis_result' = [some |-> TRUE, prompt_file_used |-> selected_prompt]
    /\ analysis_status' = "completed"
    /\ current_step' = 7
    /\ UNCHANGED <<ui_sources, selected_prompt, analysis_error, ui_pc,
                   status_timer, task_result, timer_count, active_timers,
                   status_timer_id>>

\* _generate_analysis_async reaches its except clause, lines 580-584.
AnalysisFails ==
    /\ running_tasks > 0
    /\ running_tasks' = running_tasks - 1
    /\ analysis_error' = <<"analysis failed">>
    /\ analysis_status' = "error"
    /\ UNCHANGED <<ui_sources, selected_prompt, analysis_result, current_step,
                   ui_pc, status_timer, task_result, timer_count,
                   active_timers, status_timer_id>>

\* _update_progress_display, called by any timer that is active: the timer
\* status_timer refers to is cancelled, which need not be the calling one.
\* With status_timer None the call raises before the status is reset.
UpdateProgressDisplayBy(timer) ==
    /\ timer \in active_timers
    /\ analysis_status \in {"completed", "error"}
    /\ status_timer_id # 0
    /\ active_timers' = active_timers \ {status_timer_id}
    /\ status_timer' = FALSE
    /\ analysis_status' = None
    /\ analysis_error' = IF analysis_status = "error" THEN <<>>
                         ELSE analysis_error
    /\ UNCHANGED <<ui_sources, selected_prompt, analysis_result, current_step,
                   ui_pc, task_result, running_tasks, timer_count,
                   status_timer_id>>

NextTimers ==
    \/ /\ \/ StartAnalysisAnyTime
          \/ AnalysisCompletes
          \/ AnalysisFails
          \/ \E timer \in 1..MaxTimers : UpdateProgressDisplayBy(timer)
       /\ UNCHANGED <<llmVars, parserVars, jsonVars, tableVars, engineVars,
                      sanitizeVars, fileVars, fallbackVars, jiraVars>>
    \/ ClearAll
    \/ \E sources \in SourceChoices : AddSources(sources) /\ UNCHANGED appVars

TimersIdle == InitTimers

-----------------------------------------------------------------------------
(* RCAApp: Jira tickets and the linked-issues dialog                       *)

\* What the user types into ticket_input.
TicketInputs == {"CPE-1", "cpe-1", "CPE-2", ""}

\* self.ticket_input.value.strip().upper() on the inputs.
TicketOf(text) == IF text = "cpe-1" THEN "CPE-1" ELSE text

\* The keys mcp_client.get_linked_issues_grouped returns for a ticket, in
\* the order of the loops of lines 296-299.  CPE-2 is linked to CPE-1 under
\* two link types.
LinkedIssues(ticket) ==
    IF ticket = "CPE-1" THEN <<"CPE-2", "CPE-2", "CPE-3">>
    ELSE IF ticket = "CPE-2" THEN <<"CPE-1">>
    ELSE <<>>

\* Number of fetch tasks in flight, of unreferenced check timers and of
\* open dialogs, at most.
MaxPending == 2

NoTasks == [t \in {"CPE-1", "CPE-2"} |-> 0]

InitJira ==
    /\ jira_fetch = NoJiraFetch
    /\ fetch_tasks = NoTasks
    /\ jira_check_timer = [ref |-> None, leaked |-> 0]
    /\ dialogs = <<>>

InFlight == fetch_tasks["CPE-1"] + fetch_tasks["CPE-2"]

\* add_jira_ticket_sync for a ticket that is not in the list: the fetch
\* state is set, a task and a timer are created.  The timer
\* _jira_check_timer referred to is not cancelled.
AddJiraTicketSync(text) ==
    /\ TicketOf(text) # ""
    /\ ~Contains(ui_sources.jira_tickets, TicketOf(text))
    /\ InFlight < MaxPending
    /\ jira_check_timer.ref = "active" => jira_check_timer.leaked < MaxPending
    /\ jira_fetch' = [jira_fetch EXCEPT !.status = "fetching",
                                        !.main_ticket = TicketOf(text)]
    /\ fetch_tasks' = [fetch_tasks EXCEPT ![TicketOf(text)] = @ + 1]
    /\ jira_check_timer' =
           [ref |-> "active",
            leaked |-> IF jira_check_timer.ref = "active"
                       THEN jira_check_timer.leaked + 1
                       ELSE jira_check_timer.leaked]
    /\ UNCHANGED <<ui_sources, dialogs>>

\* _fetch_linked_issues_background(main_ticket), try branch
FetchCompletes(main_ticket) ==
    /\ fetch_tasks[main_ticket] > 0
    /\ fetch_tasks' = [fetch_tasks EXCEPT ![main_ticket] = @ - 1]
    /\ jira_fetch' = [jira_fetch EXCEPT
                          !.linked_issues = LinkedIssues(main_ticket),
                          !.status = "completed"]
    /\ UNCHANGED <<ui_sources, jira_check_timer, dialogs>>

\* _fetch_linked_issues_background(main_ticket), except branch
FetchFails(main_ticket) ==
    /\ fetch_tasks[main_ticket] > 0
    /\ fetch_tasks' = [fetch_tasks EXCEPT ![main_ticket] = @ - 1]
    /\ jira_fetch' = [jira_fetch EXCEPT !.status = "error"]
    /\ UNCHANGED <<ui_sources, jira_check_timer, dialogs>>

\* _add_single_ticket
AddSingleTicket(tickets, ticket) ==
    IF Contains(tickets, ticket) THEN tickets ELSE Append(tickets, ticket)

\* _check_jira_fetch_status, called by any check timer that is active, in
\* the branches that change the state.  The timer _jira_check_timer refers
\* to is cancelled; with _jira_check_timer None the call raises there.
\* The dialog takes main_ticket and linked_issues from the fetch state of
\* the moment.
CheckFetchCompleted ==
    /\ jira_check_timer.ref = "active" \/ jira_check_timer.leaked > 0
    /\ jira_check_timer.ref # None
    /\ jira_fetch.status = "completed"
    /\ jira_check_timer' = [jira_check_timer EXCEPT !.ref = "cancelled"]
    /\ IF jira_fetch.main_ticket = "Unset" THEN dialogs' = dialogs
       ELSE /\ Len(dialogs) < MaxPending
            /\ dialogs' = Append(dialogs,
                   [main_ticket |-> jira_fetch.main_ticket,
                    linked_issues |-> jira_fetch.linked_issues])
    /\ UNCHANGED <<ui_sources, jira_fetch, fetch_tasks>>

\* The error branch: the main ticket alone is added.  With _jira_main_ticket
\* deleted the call raises after the timer was cancelled.
CheckFetchError ==
    /\ jira_check_timer.ref = "active" \/ jira_check_timer.leaked > 0
    /\ jira_check_timer.ref # None
    /\ jira_fetch.status = "error"
    /\ jira_check_timer' = [jira_check_timer EXCEPT !.ref = "cancelled"]
    /\ IF jira_fetch.main_ticket = "Unset"
       THEN UNCHANGED <<ui_sources, jira_fetch>>
       ELSE /\ ui_sources' =
                   [ui_sources EXCEPT !.jira_tickets =
                        AddSingleTicket(@, jira_fetch.main_ticket)]
            /\ jira_fetch' = CleanedUp
    /\ UNCHANGED <<fetch_tasks, dialogs>>

\* The loop of on_confirm over the checkboxes, from checkbox i on.
RECURSIVE AddSelected(_, _, _, _)
AddSelected(tickets, linked_issues, selected, i) ==
    IF i > Len(linked_issues) THEN tickets
    ELSE AddSelected(IF i \in selected /\ ~Contains(tickets, linked_issues[i])
                     THEN Append(tickets, linked_issues[i])
                     ELSE tickets,
                     linked_issues, selected, i + 1)

WithoutDialog(d) == SubSeq(dialogs, 1, d - 1) \o SubSeq(dialogs, d + 1, Len(dialogs))

\* Mutant: on_confirm appends the main ticket without looking at the list.
DialogConfirmAppend(d, selected) ==
    /\ d \in 1..Len(dialogs)
    /\ selected \subseteq 1..Len(dialogs[d].linked_issues)
    /\ ui_sources' =
           [ui_sources EXCEPT !.jira_tickets =
                AddSelected(Append(@, dialogs[d].main_ticket),
                            dialogs[d].linked_issues, selected, 1)]
    /\ dialogs' = WithoutDialog(d)
    /\ jira_fetch' = CleanedUp
    /\ UNCHANGED <<fetch_tasks, jira_check_timer>>

\* on_confirm of dialog d with the checkboxes of selected ticked
DialogConfirm(d, selected) ==
    /\ d \in 1..Len(dialogs)
    /\ selected \subseteq 1..Len(dialogs[d].linked_issues)
    /\ ui_sources' =
           [ui_sources EXCEPT !.jira_tickets =
                AddSelected(AddSingleTicket(@, dialogs[d].main_ticket),
                            dialogs[d].linked_issues, selected, 1)]
    /\ dialogs' = WithoutDialog(d)
    /\ jira_fetch' = CleanedUp
    /\ UNCHANGED <<fetch_tasks, jira_check_timer>>

\* on_cancel of dialog d
DialogCancel(d) ==
    /\ d \in 1..Len(dialogs)
    /\ dialogs' = WithoutDialog(d)
    /\ jira_fetch' = CleanedUp
    /\ UNCHANGED <<ui_sources, fetch_tasks, jira_check_timer>>

\* remove_ticket(index) with a valid index (0-based in the code)
RemoveTicket(index) ==
    /\ index \in 1..Len(ui_sources.jira_tickets)
    /\ ui_sources' =
           [ui_sources EXCEPT !.jira_tickets =
                SubSeq(@, 1, index - 1) \o SubSeq(@, index + 1, Len(@))]
    /\ UNCHANGED jiraVars

NextJira ==
    \/ /\ \/ \E text \in TicketInputs : AddJiraTicketSync(text)
          \/ \E main_ticket \in DOMAIN fetch_tasks : FetchCompletes(main_ticket)
          \/ \E main_ticket \in DOMAIN fetch_tasks : FetchFails(main_ticket)
          \/ CheckFetchCompleted
          \/ CheckFetchError
          \/ \E d \in 1..MaxPending, selected \in SUBSET (1..3) :
                DialogConfirm(d, selected)
          \/ \E d \in 1..MaxPending : DialogCancel(d)
          \/ \E index \in 1..4 : RemoveTicket(index)
       /\ UNCHANGED <<selected_prompt, analysis_result, analysis_status,
                      analysis_error, current_step, ui_pc, status_timer,
                      task_result>>
       /\ UNCHANGED <<llmVars, parserVars, jsonVars, tableVars, engineVars,
                      sanitizeVars, fileVars, fallbackVars, timerVars>>
    \/ ClearAll

JiraIdle == InitJira

AppIdle ==
    SanitizeIdle /\ FilesIdle /\ FallbackIdle /\ TimersIdle /\ JiraIdle

\* The variables of a component that takes no part in a specification.
ParserIdle ==
    /\ response_text = <<>>
    /\ analysis_type = "standard"
    /\ parsed = NotParsed

JsonIdle ==
    /\ json_in = [before |-> <<>>, object |-> <<"{", "}">>, after |-> <<>>]
    /\ json_out = [done |-> FALSE, wrapped |-> NoJson, bare |-> NoJson]

LLMIdle ==
    /\ config = [openai_api_key |-> FALSE, anthropic_api_key |-> FALSE,
                 openrouter_api_key |-> FALSE, llmproxy_api_key |-> FALSE,
                 llmproxy_base_url |-> FALSE, default_llm |-> None]
    /\ providers = <<>>
    /\ pc = "idle"
    /\ preferred_provider = None
    /\ provider_order = <<>>
    /\ idx = 1
    /\ last_error = None
    /\ response = None
    /\ error_msg = <<>>
    /\ attempts = <<>>

InitParserSpec ==
    InitParser /\ LLMIdle /\ JsonIdle /\ TableIdle /\ EngineIdle /\ UIIdle /\ AppIdle
SpecParser == InitParserSpec /\ [][NextParser]_vars

InitJsonSpec ==
    InitJson /\ LLMIdle /\ ParserIdle /\ TableIdle /\ EngineIdle /\ UIIdle /\ AppIdle
SpecJson == InitJsonSpec /\ [][NextJson]_vars

InitLLMSpec ==
    InitLLM /\ ParserIdle /\ JsonIdle /\ TableIdle /\ EngineIdle /\ UIIdle /\ AppIdle

InitTableSpec ==
    InitTable /\ LLMIdle /\ ParserIdle /\ JsonIdle /\ EngineIdle /\ UIIdle /\ AppIdle
SpecTable == InitTableSpec /\ [][NextTable]_vars

InitEngineSpec ==
    /\ InitLLM
    /\ config \in EngineConfigs
    /\ InitEngine
    /\ ParserIdle
    /\ JsonIdle
    /\ TableIdle
    /\ UIIdle
    /\ AppIdle
SpecEngine == InitEngineSpec /\ [][NextEngine]_vars

\* RCAApp.__init__ builds the engine and injects the MCP client (lines
\* 49-51); the application runs with openai configured.
InitUISpec ==
    /\ InitLLM
    /\ config \in {c \in EngineConfigs :
                      c.openai_api_key /\ ~c.anthropic_api_key
                      /\ c.default_llm = None}
    /\ mcp_client = TRUE
    /\ eng_pc = "idle"
    /\ eng_args = NoArgs
    /\ pending = <<>>
    /\ read_log = <<>>
    /\ data_parts = <<>>
    /\ source_data = <<>>
    /\ parsed_analysis = NotParsed
    /\ eng_result = NoResult
    /\ eng_error = <<>>
    /\ written = <<>>
    /\ InitUI
    /\ ParserIdle
    /\ JsonIdle
    /\ TableIdle
    /\ AppIdle
SpecUI == InitUISpec /\ [][NextUI]_vars
SpecLLM == InitLLMSpec /\ [][NextLLM]_vars

InitSanitizeSpec ==
    /\ InitSanitize
    /\ JiraIdle
    /\ TimersIdle
    /\ FilesIdle
    /\ FallbackIdle
    /\ LLMIdle
    /\ ParserIdle
    /\ JsonIdle
    /\ TableIdle
    /\ EngineIdle
    /\ UIIdle
SpecSanitize == InitSanitizeSpec /\ [][NextSanitize]_vars

InitFilesSpec ==
    /\ InitFiles
    /\ JiraIdle
    /\ TimersIdle
    /\ SanitizeIdle
    /\ FallbackIdle
    /\ LLMIdle
    /\ ParserIdle
    /\ JsonIdle
    /\ TableIdle
    /\ EngineIdle
    /\ UIIdle
SpecFiles == InitFilesSpec /\ [][NextFiles]_vars

InitFallbackSpec ==
    /\ InitFallback
    /\ JiraIdle
    /\ TimersIdle
    /\ SanitizeIdle
    /\ FilesIdle
    /\ LLMIdle
    /\ ParserIdle
    /\ JsonIdle
    /\ TableIdle
    /\ EngineIdle
    /\ UIIdle
SpecFallback == InitFallbackSpec /\ [][NextFallback]_vars

\* RCAApp after __init__, no source added yet.
InitTimersSpec ==
    /\ InitTimers
    /\ JiraIdle
    /\ InitUI
    /\ SanitizeIdle
    /\ FilesIdle
    /\ FallbackIdle
    /\ LLMIdle
    /\ ParserIdle
    /\ JsonIdle
    /\ TableIdle
    /\ EngineIdle
SpecTimers == InitTimersSpec /\ [][NextTimers]_vars

\* RCAApp after __init__.
InitJiraSpec ==
    /\ InitJira
    /\ InitUI
    /\ TimersIdle
    /\ SanitizeIdle
    /\ FilesIdle
    /\ FallbackIdle
    /\ LLMIdle
    /\ ParserIdle
    /\ JsonIdle
    /\ TableIdle
    /\ EngineIdle
SpecJira == InitJiraSpec /\ [][NextJira]_vars

\* The event loop resumes a coroutine whose awaited call has completed, and
\* the caller keeps issuing requests: a step that can be taken is taken.
FairSpecLLM == SpecLLM /\ WF_vars(NextLLM)

-----------------------------------------------------------------------------
(* Properties of UnifiedLLMClient                                          *)

AttemptedNames == [k \in 1..Len(attempts) |-> attempts[k].provider]

Configured(cfg, p) ==
    \/ p = "openai" /\ cfg.openai_api_key
    \/ p = "anthropic" /\ cfg.anthropic_api_key
    \/ p = "openrouter" /\ cfg.openrouter_api_key
    \/ p = "llmproxy" /\ cfg.llmproxy_api_key /\ cfg.llmproxy_base_url

\* The registration order restricted to the configured providers other
\* than p.
OthersInRegistrationOrder(cfg, p) ==
    SelectSeq(ProviderNames, LAMBDA q : Configured(cfg, q) /\ q # p)

CallStarted == pc \in {"loop", "returned", "raised"}

\* C1: providers are called one at a time in the computed attempt order;
\* every call before the last one failed, a successful call is the last one
\* and ends the request, and the text returned is the text of that call, so
\* the number of calls equals the position of the first success.
C1_FirstSuccessReturned ==
    /\ IsPrefixOf(AttemptedNames, provider_order)
    /\ \A k \in 1..(Len(attempts) - 1) : attempts[k].outcome = "failed"
    /\ pc = "returned" =>
          /\ attempts # <<>>
          /\ attempts[Len(attempts)].outcome = "ok"
          /\ response = attempts[Len(attempts)].text
    /\ pc = "loop" => \A k \in 1..Len(attempts) : attempts[k].outcome = "failed"

\* C1 witness: providers 1 and 2 failed, provider 3 succeeded and a fourth
\* provider in the order was left uncalled.
C1_Witness ==
    /\ pc = "returned"
    /\ Len(attempts) = 3
    /\ Len(provider_order) = 4
    /\ attempts[1].outcome = "failed" /\ attempts[2].outcome = "failed"
    /\ response = "analysis text"

\* C2: the attempt order is [preferred] + the other configured providers in
\* registration order when preferred is given and configured, else
\* [default_llm] + the others when the default is configured, else the
\* configured providers in registration order.
C2_ProviderOrder ==
    CallStarted =>
        IF Truthy(preferred_provider) /\ Configured(config, preferred_provider)
        THEN provider_order = <<preferred_provider>>
                 \o OthersInRegistrationOrder(config, preferred_provider)
        ELSE IF Truthy(config.default_llm)
                /\ Configured(config, config.default_llm)
        THEN provider_order = <<config.default_llm>>
                 \o OthersInRegistrationOrder(config, config.default_llm)
        ELSE provider_order = OthersInRegistrationOrder(config, None)

\* C2 witness: a configured preferred provider that differs from a
\* configured default, with all four providers registered.
C2_Witness ==
    /\ CallStarted
    /\ Len(providers) = 4
    /\ preferred_provider = "openrouter"
    /\ config.default_llm = "anthropic"
    /\ provider_order = <<"openrouter", "openai", "anthropic", "llmproxy">>

\* C3: when every attempted provider failed, the raised message carries the
\* error text of the last provider attempted.
C3_LastErrorRaised ==
    (pc = "raised" /\ attempts # <<>>) =>
        error_msg = <<"All LLM providers failed. Last error: ",
                      attempts[Len(attempts)].text>>

\* C3 witness: the first and the last attempt failed with different texts.
C3_Witness ==
    /\ pc = "raised"
    /\ Len(attempts) >= 2
    /\ attempts[1].text # attempts[Len(attempts)].text

\* C4: the attempt order lists every configured provider exactly once and
\* nothing else, so no provider is attempted twice within one call.
C4_NoRepeatedProvider ==
    /\ \A j, k \in 1..Len(attempts) :
          attempts[j].provider = attempts[k].provider => j = k
    /\ CallStarted =>
          /\ SeqToSet(provider_order) = SeqToSet(providers)
          /\ Len(provider_order) = Len(providers)

\* C4 witness: preferred equals the configured default and all four
\* providers were attempted.
C4_Witness ==
    /\ pc = "raised"
    /\ Truthy(preferred_provider)
    /\ preferred_provider = config.default_llm
    /\ Len(attempts) = 4

\* C11: every provider attempt is bounded by a timeout, so a provider that
\* never responds is abandoned as a failure and every generate_analysis
\* call eventually returns a completion or raises.
C11_EveryCallCompletes == (pc = "loop") ~> (pc \in {"returned", "raised"})

\* C12: an empty or missing completion text counts as a failed attempt;
\* generate_analysis never returns an empty or None completion.
C12_NoEmptyCompletion ==
    /\ pc = "returned" => response \notin {"", None}
    /\ \A k \in 1..Len(attempts) :
          attempts[k].outcome = "ok" => attempts[k].text \notin {"", None}

-----------------------------------------------------------------------------
(* Properties of ResponseParser                                            *)

Parsed == parsed.done /\ ~parsed.raised

HasField(name, value) ==
    name \in DOMAIN parsed.fields /\ parsed.fields[name] = value

\* The fields result.update(json_data) adds when it does not raise.
UpdatedFrom(u) == IF u.raised THEN EmptyMap ELSE u.fields

JsonFields(t) == UpdatedFrom(UpdateWithJson(EmptyMap, ExtractJson(t)))

\* What the structured extraction and the section extraction of a dialect
\* yield for a text, raw_response aside.
ExtractedFields(t, atype) ==
    CASE atype = "kt-analysis_prompt" -> Merge(JsonFields(t), ParseKtSections(t))
      [] atype = "formal_rca_prompt" -> ParseFormalRcaSections(t)
      [] atype = "initial_analysis_prompt" -> ParseInitialAnalysisSections(t)
      [] OTHER -> JsonFields(t)

\* Completions made of a declared header and a known filler, per dialect.
HeadedSegments ==
    {[dialect |-> "formal_rca_prompt", name |-> "timeline",
      text |-> FormalTimeline, filler |-> FormalTimelineFiller],
     [dialect |-> "formal_rca_prompt", name |-> "root_cause",
      text |-> FormalRootCause, filler |-> FormalRootCauseFiller],
     [dialect |-> "kt-analysis_prompt", name |-> "root_cause_analysis",
      text |-> KtRootCause, filler |-> KtRootCauseFiller],
     [dialect |-> "kt-analysis_prompt", name |-> "recommendations",
      text |-> KtRecommendations, filler |-> KtRecommendationsFiller],
     [dialect |-> "initial_analysis_prompt", name |-> "people",
      text |-> InitialPeople, filler |-> InitialPeopleFiller],
     [dialect |-> "initial_analysis_prompt", name |-> "timeline",
      text |-> InitialTimeline, filler |-> InitialTimelineFiller]}

\* C5: the returned record has raw_response equal to the input text
\* exactly, whatever the structured object or the sections merge into it.
C5_RawResponsePreserved ==
    Parsed => HasField("raw_response", StrField(response_text))

\* C6: parse_llm_response returns a record and never raises, for every
\* text and every analysis type, texts that are JSON but not an object
\* included.
C6_ParseNeverRaises == parsed.done => ~parsed.raised

\* C7: when neither the structured extraction nor the section extraction
\* yields a field, the returned record holds the fixed fallback record:
\* the two placeholders, parsing_error = true and the text as raw_content.
C7_FallbackWhenNothingExtracted ==
    (Parsed /\ DOMAIN ExtractedFields(response_text, analysis_type) = {}) =>
        \A k \in DOMAIN CreateFallbackAnalysis(response_text) :
            HasField(k, CreateFallbackAnalysis(response_text)[k])

\* C8: for each analysis type, a declared header followed by a filler of
\* one or several lines and then the next header or the end of the text
\* gives a field equal to the entire filler.
C8_SectionEqualsFiller ==
    \A a, b \in HeadedSegments :
        (/\ Parsed
         /\ a.dialect = analysis_type
         /\ b.dialect = analysis_type
         /\ response_text \in {a.text, a.text \o b.text}) =>
            HasField(a.name, StrField(Strip(a.filler)))

\* C9: _extract_json of a JSON object inside surrounding prose, code-fence
\* markers and brace-containing prose included, returns the same key/value
\* pairs as _extract_json of the object alone.
C9_ProseInvariant ==
    json_out.done =>
        /\ json_out.wrapped.some = json_out.bare.some
        /\ json_out.wrapped.val.map = json_out.bare.val.map

\* C10: under formal_rca_prompt the record holds the fields of the JSON
\* object of the completion as well as one field per headed section; for
\* the object {"executive_summary":"ok"} followed by the sections Timeline
\* and Root Cause it holds executive_summary = "ok", timeline = "Event A
\* happened" and root_cause = "Misconfiguration".
C10_FormalAppliesJsonAndSections ==
    (Parsed /\ analysis_type = "formal_rca_prompt") =>
        /\ DOMAIN JsonFields(response_text) \subseteq DOMAIN parsed.fields
        /\ response_text = JsonSummary \o ExampleSections =>
              /\ HasField("executive_summary", StrField(<<"ok">>))
              /\ HasField("timeline", StrField(Ph(<<"Event", "A", "happened">>)))
              /\ HasField("root_cause", StrField(<<"Misconfiguration">>))

\* The fields the section extraction of a dialect takes from headed
\* sections (pattern tables and the header-based pass; the whole-text
\* fallbacks and the CAP line aside).
SectionFields(t, atype) ==
    CASE atype = "kt-analysis_prompt" -> ParseKtSections(t)
      [] atype = "formal_rca_prompt" ->
           WithBroaderSections(
               SectionsOf(t, FormalSectionPatterns, Substantial), t)
      [] atype = "initial_analysis_prompt" ->
           SectionsOf(t, InitialSectionPatterns, NonEmpty)
      [] OTHER -> EmptyMap

\* C16: when the structured object and the section extraction both give a
\* value for a field name, the returned record holds the one of the
\* structured object.
C16_StructuredFieldsWin ==
    Parsed =>
        \A k \in DOMAIN JsonFields(response_text)
                 \cap DOMAIN SectionFields(response_text, analysis_type) :
            k = "raw_response" \/ HasField(k, JsonFields(response_text)[k])

\* C17: no field produced by section extraction, in any dialect and in the
\* header-based pass, holds content shorter than 10 characters.
C17_NoShortSection ==
    Parsed =>
        \A k \in DOMAIN SectionFields(response_text, analysis_type) :
            /\ k \in DOMAIN parsed.fields
            /\ CharLen(parsed.fields[k].v) >= MinContentLen

\* A separator/divider line of a markdown table: dashes, with nothing else
\* than pipes, colons and blanks.
IsDivider(line) ==
    /\ Contains(line, "-")
    /\ \A k \in 1..Len(line) : line[k] \in {"-", "|", ":", " "}

\* C18: _clean_markdown_table drops every pure divider line; the lines
\* '  a | b  ', '---|---', 'plain text' give the row with a pipe at both
\* ends, no divider line, and 'plain text' as it is.
C18_DividerLinesDropped ==
    table_out.done =>
        /\ \A k \in 1..Len(SplitLines(table_out.text)) :
              ~IsDivider(SplitLines(table_out.text)[k])
        /\ table_in = << <<" ", " ", "a", " ", "|", " ", "b", " ", " ">>,
                         <<"-", "-", "-", "|", "-", "-", "-">>,
                         <<"plain", " ", "text">> >> =>
              table_out.text = <<"|", " ", "a", " ", "|", " ", "b", " ", "|",
                                 "\n", "plain", " ", "text">>

-----------------------------------------------------------------------------
(* Properties of RCAEngine                                                 *)

\* llm_client.generate_analysis raised "All LLM providers failed" in the
\* running request.
AllProvidersExhausted == error_msg # <<>>

\* C14: if every provider fails, generate_analysis of the engine raises the
\* client's error and no analysis exists for the request: the parser was
\* not invoked, no result was built and neither a document nor a JSON
\* report was written.
C14_NoAnalysisWhenAllFail ==
    AllProvidersExhausted =>
        /\ eng_pc \in {"llm", "raised"}
        /\ eng_pc = "raised" => eng_error = error_msg
        /\ parsed_analysis = NotParsed
        /\ ~eng_result.some
        /\ written = <<>>

\* C14 witness: a formal RCA request with sources raised after both
\* configured providers failed.
C14_Witness ==
    /\ eng_pc = "raised"
    /\ AllProvidersExhausted
    /\ Len(attempts) = 2
    /\ eng_args.analysis_type = "formal_rca_prompt"
    /\ data_parts # <<>>

\* The list of the request's files, URLs and Jira tickets, in that order.
ExpectedSources(args) ==
    [k \in 1..(Len(args.files) + Len(args.urls) + Len(args.jira_tickets)) |->
        IF k <= Len(args.files) THEN <<"File: ", PathName(args.files[k])>>
        ELSE IF k <= Len(args.files) + Len(args.urls)
             THEN <<"URL: ", args.urls[k - Len(args.files)]>>
        ELSE <<"Jira: ",
               args.jira_tickets[k - Len(args.files) - Len(args.urls)]>>]

\* C15: after a successful generate_analysis the analysis has sources_used:
\* the parsed one if the parsed response had the field, else the list of
\* the request's files, URLs and tickets in that order; every other field,
\* raw_response included, is as the parser produced it.
C15_SourcesUsedFrame ==
    eng_pc = "returned" =>
        /\ eng_result.some
        /\ parsed_analysis =
              Outcome(ParseLlmResponse(response, eng_args.analysis_type))
        /\ "sources_used" \in DOMAIN eng_result.analysis
        /\ \A k \in DOMAIN parsed_analysis.fields :
              /\ k \in DOMAIN eng_result.analysis
              /\ eng_result.analysis[k] = parsed_analysis.fields[k]
        /\ DOMAIN eng_result.analysis
              = DOMAIN parsed_analysis.fields \cup {"sources_used"}
        /\ "sources_used" \notin DOMAIN parsed_analysis.fields =>
              eng_result.analysis["sources_used"]
                  = [type |-> "list", v |-> ExpectedSources(eng_args)]

\* C15 witness: a request with two files, a URL and a ticket returned an
\* analysis whose parsed response already had sources_used.
C15_Witness ==
    /\ eng_pc = "returned"
    /\ "sources_used" \in DOMAIN parsed_analysis.fields
    /\ Len(eng_args.files) = 2
    /\ eng_args.urls # <<>>
    /\ eng_args.jira_tickets # <<>>

\* _collect_source_data has returned.
CollectionDone == eng_pc \in {"llm", "returned", "raised"} /\ source_data # <<>>

\* C19: in _collect_source_data a failing read never aborts the reads of
\* the remaining sources, and the failed source is present in the collected
\* result as an inline error entry naming the source and the reason.
C19_FailedSourceInline ==
    CollectionDone =>
        /\ Len(read_log) = Len(SourcesOf(eng_args))
        /\ \A k \in 1..Len(read_log) :
              /\ read_log[k].source = SourcesOf(eng_args)[k]
              /\ ~read_log[k].ok =>
                    \E j \in 1..Len(data_parts) :
                        /\ data_parts[j].kind = read_log[k].source.kind
                        /\ data_parts[j].name = read_log[k].source.name
                        /\ "error" \in DOMAIN data_parts[j]
                        /\ data_parts[j].error = read_log[k].text

-----------------------------------------------------------------------------
(* Properties of RCAApp                                                    *)

\* C20: the result the UI stores names, as prompt_file_used, the analysis
\* type that was passed to the engine for that generation, whatever the
\* dropdown is changed to after the generation or while it is in flight.
C20_ResultNamesTypeUsed ==
    analysis_result.some =>
        analysis_result.prompt_file_used = eng_args.analysis_type

-----------------------------------------------------------------------------
(* Properties of FileHandler                                               *)

HasPair(s, old) == \E i \in 1..(Len(s) - 1) : s[i] = old[1] /\ s[i + 1] = old[2]

\* name holds an entry of the dangerous list.
HasDangerous(name) ==
    \E k \in 1..Len(DangerousChars) :
        IF Len(DangerousChars[k]) = 1
        THEN \E i \in 1..Len(name) : name[i] = DangerousChars[k][1]
        ELSE HasPair(name, DangerousChars[k])

\* The paths the successful saves returned, in call order.
ReturnedPaths == SelectSeq(uploads, LAMBDA u : u.returned.ok)

\* C21: save_uploaded_file never overwrites: every successful save returns
\* a path that did not exist before the call, the returned paths are
\* pairwise different, and every file that exists keeps its content.
C21_NeverOverwrites ==
    /\ [](\A i, j \in 1..Len(ReturnedPaths) :
             i # j => ReturnedPaths[i].returned.path
                          # ReturnedPaths[j].returned.path)
    /\ [][/\ \A n \in DOMAIN upload_dir :
                 n \in DOMAIN upload_dir' /\ upload_dir'[n] = upload_dir[n]
          /\ Len(uploads') > Len(uploads)
                 /\ uploads'[Len(uploads')].returned.ok
             => uploads'[Len(uploads')].returned.path \notin DOMAIN upload_dir
         ]_vars

\* The same filename was saved twice, with different contents, and a third
\* upload asked for the name the second one was given.
C21_Witness ==
    /\ Len(uploads) = 3
    /\ \A i \in 1..3 : uploads[i].returned.ok
    /\ uploads[1].filename = uploads[2].filename
    /\ uploads[1].content # uploads[2].content
    /\ SanitizeFilename(uploads[3].filename) = uploads[2].returned.path

\* C22: the output of _sanitize_filename holds no path separator, no ".."
\* and no other entry of the dangerous list, shortened names included.
C22_SanitizedIsSafe == san_out.done => ~HasDangerous(san_out.name)

-----------------------------------------------------------------------------
(* Further properties of ResponseParser and UnifiedLLMClient               *)

\* C23: the raw_content of the fallback record is a prefix of the input
\* text and holds at most 2000 characters, whatever the length of the text.
C23_RawContentBounded ==
    fb_out.done =>
        /\ Len(fb_out.fields["raw_content"].v) <= PreviewLen
        /\ Len(fb_out.fields["raw_content"].v) <= Len(fb_in)
        /\ fb_out.fields["raw_content"].v
               = SubSeq(fb_in, 1, Len(fb_out.fields["raw_content"].v))

\* C24: the error raised when every provider failed names the provider that
\* was attempted last, next to that provider's error text.
C24_ErrorNamesLastProvider ==
    (pc = "raised" /\ attempts # <<>>) =>
        /\ \E i \in 1..Len(error_msg) :
               error_msg[i] = attempts[Len(attempts)].text
        /\ \E i \in 1..Len(error_msg) :
               error_msg[i] = attempts[Len(attempts)].provider

\* The lines of a text that are not blank, hold no column separator and
\* are no divider line (dashes, colons and spaces only).
PlainLines(lines) ==
    SelectSeq(lines, LAMBDA line :
        Strip(line) # <<>> /\ ~Contains(line, "|") /\ ~IsDivider(line))

\* C25: every non-blank line without a column separator is passed through
\* unchanged and in its original order, whatever it starts with, bullet
\* items beginning with "-" included.
C25_PlainLinesPassThrough ==
    table_out.done =>
        PlainLines(SplitLines(table_out.text)) = PlainLines(table_in)

\* C26: _clean_markdown_table is idempotent: cleaning the cleaned text
\* returns it unchanged.
C26_CleanIsIdempotent ==
    table_out.done => CleanMarkdownTable(table_out.text) = table_out.text

\* A table row got both separators added, a line was dropped and a plain
\* line was kept: the cleaned text differs from the input.
C26_Witness ==
    /\ table_out.done
    /\ table_in = << <<" ", " ", "a", " ", "|", " ", "b", " ", " ">>,
                     <<"-", "-", "-">>,
                     <<"plain", " ", "text">> >>
    /\ table_out.text = <<"|", " ", "a", " ", "|", " ", "b", " ", "|",
                          "\n", "plain", " ", "text">>

-----------------------------------------------------------------------------
(* Further properties of RCAApp                                            *)

\* What clear_all leaves: no result, no status and no status timer.
Cleared ==
    /\ analysis_result = NoResult
    /\ analysis_status = None
    /\ ~status_timer

\* C27: after clear_all the result and the status stay None until
\* start_analysis is invoked again (the only step that creates a status
\* timer), also when an analysis task was running at the time of clear_all
\* and finishes afterwards.
C27_ClearedUntilRestart ==
    [][(Cleared /\ ~status_timer')
           => (analysis_result' = NoResult /\ analysis_status' = None)]_vars

\* C28: no status timer stays active when no analysis is running: once
\* every analysis has ended and its end has been handled (the status is
\* None again), every timer start_analysis created is cancelled, also
\* when start_analysis was invoked again while an analysis was running.
C28_NoTimerLeftActive ==
    (running_tasks = 0 /\ analysis_status = None) => active_timers = {}

\* C29: every linked-issues dialog shows a main ticket together with the
\* linked issues that were fetched for that ticket, also when a second
\* ticket was submitted while the fetch for the first was in flight.
C29_DialogPairsTicketWithItsIssues ==
    \A d \in 1..Len(dialogs) :
        dialogs[d].linked_issues = LinkedIssues(dialogs[d].main_ticket)

\* C30: jira_tickets never holds the same ticket id twice.
C30_NoDuplicateTickets ==
    \A i, j \in 1..Len(ui_sources.jira_tickets) :
        i # j => ui_sources.jira_tickets[i] # ui_sources.jira_tickets[j]

\* A dialog confirm added the main ticket and the linked issues, one of
\* them offered twice by the dialog, and a second dialog for the same main
\* ticket is still open.
C30_Witness ==
    /\ ui_sources.jira_tickets = <<"CPE-1", "CPE-2", "CPE-3">>
    /\ \E d \in 1..Len(dialogs) : dialogs[d].main_ticket = "CPE-1"

====
